---- MODULE Spec2Model ----
(***************************************************************************)
(* Model of the Muse Athena client (src/src/muse-athena.ts, first class    *)
(* definition, lines 1-412) and of the tag-based packet decoder            *)
(* (src/src/lib/athena-parser.ts).                                         *)
(*                                                                         *)
(* Units.  Date.now() is an integer number of milliseconds.  Synthesized   *)
(* timestamps are fractions of a millisecond; they are kept exactly, as    *)
(* integers counting 1/TS ms (TS = 416 = 32 * 13 makes 1000/256, 1000/64   *)
(* and 1000/52 whole).  Decoded values are kept exactly as integers in the *)
(* unit written next to each scale.                                        *)
(***************************************************************************)
EXTENDS Integers, Sequences, FiniteSets, TLC

VARIABLES
    gatt,              \* this.gatt: "null" or "set"
    deviceConnected,   \* gatt.connected of the transport
    armed,             \* the first() subscription to gattserverdisconnected is live
    hasControlChar,    \* this.controlChar has been assigned by a connect()
    connectionStatus,  \* connectionStatus.value
    lastIndex,         \* kind -> last*Index, NULL or <<n>>
    lastTimestamp,     \* kind -> last*Timestamp, NULL or <<t>> (1/TS ms)
    subscribed,        \* target tags of the subscribed pipelines, in subscription order
    links,             \* the promise chain behind this.commandLock
    writes,            \* calls of controlChar.writeValueWithoutResponse, in call order
    startProc,         \* the running start() call
    callsMade,         \* history: number of API calls that send commands
    epoch,             \* history: number of connect() calls so far
    lastRet,           \* history: kind -> last timestamp returned in this connection
    lastArrival,       \* history: kind -> Date.now() of the previous call in this connection
    calls,             \* history: getAthenaTimestamp calls of the last notification
    out,               \* history: readings published by the last notification
    dispatches,        \* history: number of notifications handled
    scanBuf,           \* the buffer handed to parsePacket / to a scan loop
    scanIdx,           \* tagIndex of a parsePacket call / idx of a scan loop
    callTag,           \* the tag argument of a parsePacket call
    decoded,           \* NULL or <<what that parsePacket call did>>
    arg,               \* the function applied to scanBuf and the value scanBuf encodes
    scanner,           \* the running scan loop: "router" or "packetParser"
    target,            \* targetTag of the router scan
    phase,             \* position of the scan: "idle", "entry", "loop", "done"
    trail,             \* packetParser: parsedPackets; router: history of its iterations
    tally,             \* packetParser: counts and unknownSuppressed
    twin,              \* the clocks of a second client fed the same calls
    clockNow,          \* the last value Date.now() returned to the two clients
    nCalls,            \* history: getAthenaTimestamp calls made on the two clients
    kindUnderTest,     \* the kind the two clients are called with
    infoProc,          \* the running deviceInfo() call
    fwAnswers          \* history: firmware responses the device has sent

vars == <<gatt, deviceConnected, armed, hasControlChar, connectionStatus,
          lastIndex, lastTimestamp, subscribed, links, writes, startProc, callsMade,
          epoch, lastRet, lastArrival, calls, out, dispatches,
          scanBuf, scanIdx, callTag, decoded, arg, scanner, target, phase, trail, tally,
          twin, clockNow, nCalls, kindUnderTest, infoProc, fwAnswers>>

clientVars == <<gatt, deviceConnected, armed, hasControlChar, connectionStatus,
                lastIndex, lastTimestamp, subscribed, links, writes, startProc,
                callsMade, epoch, lastRet, lastArrival, calls, out, dispatches>>
decodeVars == <<callTag, decoded, arg>>
scanVars   == <<scanner, target, phase, trail, tally>>
twinVars   == <<twin, clockNow, nCalls, kindUnderTest>>
infoVars   == <<infoProc, fwAnswers>>
toolVars   == <<scanBuf, scanIdx, decodeVars, scanVars, twinVars, infoVars>>

connVars  == <<gatt, deviceConnected, armed, hasControlChar, connectionStatus, epoch>>
clockVars == <<lastIndex, lastTimestamp>>
histVars  == <<lastRet, lastArrival, calls, out, dispatches>>
cmdVars   == <<links, writes, startProc, callsMade>>

NULL == <<>>
Some(v) == <<v>>
Val(o) == o[1]

(***************************************************************************)
(* Bounds of the model.                                                    *)
(***************************************************************************)
MaxDispatch == 2      \* notifications handled in one behaviour
MaxConnects == 2      \* connect() calls in one behaviour
MaxOps == 2           \* start/pause/resume/stop/deviceInfo calls in one behaviour
MaxSubs == 2          \* pipelines subscribed at the same time
StartNow == 1000      \* wall-clock reading at construction, ms
Times == {StartNow, StartNow + 499, StartNow + 1200}  \* wall-clock readings, ms

TS == 32 * 13         \* timestamp units per millisecond
RecalibrateMs == 500  \* muse-athena.ts:390

Kinds == {"eeg", "accgyro", "optical"}

(***************************************************************************)
(* athena-parser.ts: bit-field helpers.  A buffer is a sequence of bytes;  *)
(* byte i (0-based) of buf is buf[i + 1].                                  *)
(***************************************************************************)
Pow2(n) == 2 ^ n

ByteAt(buf, i) == IF i >= 0 /\ i < Len(buf) THEN buf[i + 1] ELSE 0

\* mutant: bits are taken from the most significant end of the byte
BitOfMsbFirst(byte, i) == (byte \div Pow2(7 - i)) % 2

BitOf(byte, i) == (byte \div Pow2(i)) % 2

subarray(data, from, to) ==
    LET t == IF to > Len(data) THEN Len(data) ELSE to
    IN  IF from >= t THEN <<>> ELSE SubSeq(data, from + 1, t)

bytesToBitarray(data) ==
    [k \in 1..(Len(data) * 8) |-> BitOf(data[((k - 1) \div 8) + 1], (k - 1) % 8)]

RECURSIVE bitsToIntFrom(_, _, _, _)
bitsToIntFrom(bits, startIdx, width, i) ==
    IF i >= width THEN 0
    ELSE (IF startIdx + i < Len(bits) /\ bits[startIdx + i + 1] = 1 THEN Pow2(i) ELSE 0)
         + bitsToIntFrom(bits, startIdx, width, i + 1)

bitsToInt(bits, startIdx, width) == bitsToIntFrom(bits, startIdx, width, 0)

RECURSIVE fieldFrom(_, _, _, _)
fieldFrom(buf, startBit, width, i) ==
    IF i >= width THEN 0
    ELSE BitOf(ByteAt(buf, (startBit + i) \div 8), (startBit + i) % 8) * Pow2(i)
         + fieldFrom(buf, startBit, width, i + 1)

parseUint14LEValues(buf) ==
    LET width == 14
        nVals == (Len(buf) * 8) \div width
    IN  [i \in 1..nVals |-> fieldFrom(buf, (i - 1) * width, width, 0)]

\* mutant: the two bytes are read most significant first
getInt16BigEndian(block, byteOffset) ==
    LET u == 256 * ByteAt(block, byteOffset) + ByteAt(block, byteOffset + 1)
    IN  IF u >= 32768 THEN u - 65536 ELSE u

\* mutant: the field is read as unsigned
getUint16(block, byteOffset) ==
    ByteAt(block, byteOffset) + 256 * ByteAt(block, byteOffset + 1)

getInt16(block, byteOffset) ==
    LET u == ByteAt(block, byteOffset) + 256 * ByteAt(block, byteOffset + 1)
    IN  IF u >= 32768 THEN u - 65536 ELSE u

(***************************************************************************)
(* athena-parser.ts: parsePacket.  raised = the call threw.                *)
(* Units of the decoded values: EEG 1e-4 uV ((v - 8192) * 0.0885),         *)
(* ACC 0.0000610352 G, GYRO 0.0074768 deg/s (negated), OPTICAL 1/32768.    *)
(***************************************************************************)
TagEEG == 18        \* 0x12
TagAccGyro == 71    \* 0x47
TagOptical == 52    \* 0x34
TagBattery == 136   \* 0x88

Raise == [raised |-> TRUE, next |-> 0, name |-> "", entries |-> <<>>, samples |-> 0]

Ret(next, name, entries, samples) ==
    [raised |-> FALSE, next |-> next, name |-> name, entries |-> entries, samples |-> samples]

\* tag.toString(16).toUpperCase().padStart(2, '0'), for a byte
HexDigits ==
    <<"0", "1", "2", "3", "4", "5", "6", "7", "8", "9", "A", "B", "C", "D", "E", "F">>

toString16(n) ==
    IF n < 16 THEN HexDigits[n + 1]
    ELSE HexDigits[(n \div 16) + 1] \o HexDigits[(n % 16) + 1]

padStart2(str) == IF Len(str) < 2 THEN "0" \o str ELSE str

unknownName(tag) == "UNKNOWN_0x" \o padStart2(toString16(tag))

\* mutant: an unknown tag is taken to have the 4-byte sub-header of the known ones
unknownTagSkipsSubHeader(tag, tagIndex) ==
    Ret(tagIndex + 1 + 4, unknownName(tag), <<>>, 1)

\* the default case: consume only the tag byte
unknownTag(tag, tagIndex) ==
    Ret(tagIndex + 1, unknownName(tag), <<>>, 1)

\* mutant: the sub-header is not skipped
payloadStartAtTag(tagIndex) == tagIndex + 1

\* after the tag byte, skip 4 bytes
payloadStartOf(tagIndex) == tagIndex + 1 + 4

\* mutant: the length check lets a payload that is one byte short through
notEnoughOffByOne(endIndex, length) == endIndex > length + 1

\* if (endIndex > data.length) throw ...
notEnough(endIndex, length) == endIndex > length

\* mutant: the 14-bit field is taken as two's complement
scaleEEGTwosComplement(v) == (IF v >= 8192 THEN v - 16384 ELSE v) * 885

\* (v - 8192) * 0.0885, in 1e-4 uV
scaleEEG(v) == (v - 8192) * 885

parsePacket(data, tag, tagIndex) ==
    LET payloadStart == payloadStartOf(tagIndex)
    IN  CASE tag = TagEEG ->
              LET endIndex == payloadStart + 28
                  values == parseUint14LEValues(subarray(data, payloadStart, endIndex))
                  scaled == [i \in 1..Len(values) |-> scaleEEG(values[i])]
              IN  IF notEnough(endIndex, Len(data)) THEN Raise
                  ELSE Ret(endIndex, "EEG", <<[type |-> "EEG", data |-> scaled]>>, 2)
          [] tag = TagAccGyro ->
              LET endIndex == payloadStart + 18 * 2
                  block == subarray(data, payloadStart, endIndex)
                  vals == [i \in 1..18 |-> getInt16(block, (i - 1) * 2)]
                  entries == [j \in 1..6 |->
                      LET base == ((j - 1) \div 2) * 6
                      IN  IF j % 2 = 1
                          THEN [type |-> "ACC",
                                data |-> [c \in 1..3 |-> vals[base + c]]]
                          ELSE [type |-> "GYRO",
                                data |-> [c \in 1..3 |-> 0 - vals[base + 3 + c]]]]
              IN  IF notEnough(endIndex, Len(data)) THEN Raise
                  ELSE Ret(endIndex, "ACC_GYRO", entries, 3)
          [] tag = TagOptical ->
              LET endIndex == payloadStart + 30
                  block == subarray(data, payloadStart, endIndex)
                  entries == [s \in 1..3 |->
                      [type |-> "OPTICAL",
                       data |-> [v \in 1..4 |->
                                   fieldFrom(block, ((s - 1) * 4 + (v - 1)) * 20, 20, 0)]]]
              IN  IF notEnough(endIndex, Len(data)) THEN Raise
                  ELSE Ret(endIndex, "OPTICAL", entries, 3)
          [] tag = TagBattery ->
              LET endIndex == payloadStart + 20
                  bits == bytesToBitarray(subarray(data, payloadStart, endIndex))
                  values == [i \in 1..10 |-> bitsToInt(bits, (i - 1) * 16, 16)]
              IN  IF notEnough(endIndex, Len(data)) THEN Raise
                  ELSE Ret(endIndex, "BATTERY", <<[type |-> "BATTERY", data |-> values]>>, 1)
          [] OTHER -> unknownTag(tag, tagIndex)

\* The byte indices of data that one parsePacket call reads: the indices the
\* helpers read in the block, moved by the block's offset in data.
\* parseUint14LEValues reads buf[floor((i * 14 + bitIndex) / 8)]
uint14Reads(buf) ==
    {((i * 14 + b) \div 8) : i \in 0..(((Len(buf) * 8) \div 14) - 1), b \in 0..13}

\* view.getInt16(i * 2, true) for i < 18 reads bytes i * 2 and i * 2 + 1
int16Reads == UNION {{i * 2, i * 2 + 1} : i \in 0..17}

\* block[bitPos >> 3] for the 12 fields of 20 bits
opticalReads == {(((sample * 4 + v) * 20 + i) \div 8) : sample \in 0..2, v \in 0..3, i \in 0..19}

\* for (const byte of data) reads every byte of the block
bitarrayReads(block) == 0..(Len(block) - 1)

parsePacketReads(data, tag, tagIndex) ==
    LET payloadStart == payloadStartOf(tagIndex)
        len == IF tag = TagEEG THEN 28 ELSE IF tag = TagAccGyro THEN 18 * 2
               ELSE IF tag = TagOptical THEN 30 ELSE 20
        endIndex == payloadStart + len
        block == subarray(data, payloadStart, endIndex)
        inBlock == IF tag = TagEEG THEN uint14Reads(block)
                   ELSE IF tag = TagAccGyro THEN int16Reads
                   ELSE IF tag = TagOptical THEN opticalReads
                   ELSE bitarrayReads(block)
    IN  IF tag \notin {TagEEG, TagAccGyro, TagOptical, TagBattery} THEN {}
        ELSE IF notEnough(endIndex, Len(data)) THEN {}
        ELSE {payloadStart + r : r \in inBlock}

\* test/analyze_eeg_values.ts: parseUintLEValues(buf, bitWidth), the decoder's
\* extraction with the width as a parameter (a bit past the buffer reads as 0)
parseUintLEValues(buf, bitWidth) ==
    LET nVals == (Len(buf) * 8) \div bitWidth
    IN  [i \in 1..nVals |-> fieldFrom(buf, (i - 1) * bitWidth, bitWidth, 0)]

(***************************************************************************)
(* Notification buffers the transport delivers: a 9-byte header (byte 1 is *)
(* the rolling event index) followed by tagged packets.                    *)
(***************************************************************************)
Header(eventIndex) == <<0, eventIndex, 0, 0, 0, 0, 0, 0, 0>>

Payload(n, seed) == [i \in 1..n |-> (seed + 37 * i) % 256]

Packet(tag, n, seed) == <<tag, 0, 0, 0, 0>> \o Payload(n, seed)

EegPacket == Packet(TagEEG, 28, 11)
AccGyroPacket == Packet(TagAccGyro, 36, 201)
OpticalPacket == Packet(TagOptical, 30, 5)

Buffers ==
    { Header(1) \o EegPacket,
      Header(2) \o AccGyroPacket \o <<255>> \o OpticalPacket,
      <<0, 3, 0>> }

BatteryPacket(seed) == Packet(TagBattery, 20, seed)

\* notifications for the length guard and the battery pipeline: buffers cut
\* inside the header, buffers with readings, and buffers with one or two 0x88
\* packets, at offset 9 or behind another packet (one with a payload byte
\* 0x88), whole or cut short
DeliveredBuffers ==
    { SubSeq(Header(7) \o EegPacket, 1, n) : n \in {0, 1, 9} }
        \cup { b \in Buffers : Len(b) > Len(Header(0)) }
        \cup { Header(8) \o BatteryPacket(5),
               Header(8) \o BatteryPacket(5) \o BatteryPacket(90),
               Header(8) \o EegPacket \o BatteryPacket(90),
               Header(8) \o Packet(TagEEG, 28, 99) \o BatteryPacket(5) \o BatteryPacket(90),
               Header(8) \o SubSeq(BatteryPacket(5), 1, 15),
               Header(8) \o BatteryPacket(90) \o SubSeq(BatteryPacket(5), 1, 15) }

\* parsePacket is a pure function of its arguments: its results on the model's
\* buffers are tabulated once, PacketTable[b][i] = parsePacket(b, b[i], i, false)
PacketTable ==
    [b \in Buffers \cup DeliveredBuffers |->
        [i \in 0..(Len(b) - 1) |-> parsePacket(b, ByteAt(b, i), i)]]

(***************************************************************************)
(* muse-athena.ts: getAthenaTimestamp.  c is the client state the router   *)
(* threads through one notification: the clocks plus the history fields.   *)
(* t is the value Date.now() returns.                                      *)
(***************************************************************************)
\* mutant: the interval ignores samplesPerReading
READING_DELTA_PerSample(frequency, samplesPerReading) ==
    (1000 * TS) \div frequency

READING_DELTA(frequency, samplesPerReading) ==
    (1000 * TS * samplesPerReading) \div frequency

\* mutant: recalibrates whenever the clock is more than 500 ms away from now,
\* behind or ahead
RecalibrateEitherWay(li, lt, t) ==
    \/ li = NULL
    \/ lt = NULL
    \/ t * TS - Val(lt) > RecalibrateMs * TS
    \/ Val(lt) - t * TS > RecalibrateMs * TS

\* mutant: recalibrates on the first call only
RecalibrateFirstOnly(li, lt, t) ==
    li = NULL \/ lt = NULL

Recalibrate(li, lt, t) ==
    li = NULL \/ lt = NULL \/ t * TS - Val(lt) > RecalibrateMs * TS

\* mutant: every data type uses the EEG fields
ClockOfShared(dataType) == "eeg"

ClockOf(dataType) ==
    IF dataType = "eeg" THEN "eeg"
    ELSE IF dataType = "accgyro" THEN "accgyro" ELSE "optical"

\* mutant: between recalibrations the clock advances by one interval per
\* event-index step (mod 256) since the stored index
getAthenaTimestampByIndex(c, eventIndex, samplesPerReading, frequency, dataType, t) ==
    LET delta == READING_DELTA(frequency, samplesPerReading)
        k == ClockOf(dataType)
        li == c.lastIndex[k]
        lt == c.lastTimestamp[k]
        ts == IF Recalibrate(li, lt, t) THEN t * TS - delta
              ELSE Val(lt) + delta * ((eventIndex - Val(li)) % 256)
        call == [kind |-> k, now |-> t, frequency |-> frequency,
                 samplesPerReading |-> samplesPerReading, delta |-> delta,
                 prevIndex |-> li, prevTimestamp |-> lt, prevRet |-> c.lastRet[k],
                 prevArrival |-> c.lastArrival[k], ret |-> ts, subs |-> c.subs]
    IN  [c EXCEPT !.lastIndex[k] = Some(eventIndex),
                  !.lastTimestamp[k] = Some(ts),
                  !.lastRet[k] = Some(ts),
                  !.lastArrival[k] = Some(t),
                  !.calls = Append(@, call),
                  !.ret = ts]

getAthenaTimestamp(c, eventIndex, samplesPerReading, frequency, dataType, t) ==
    LET delta == READING_DELTA(frequency, samplesPerReading)
        k == ClockOf(dataType)
        li == c.lastIndex[k]
        lt == c.lastTimestamp[k]
        ts == IF Recalibrate(li, lt, t) THEN t * TS - delta ELSE Val(lt) + delta
        call == [kind |-> k, now |-> t, frequency |-> frequency,
                 samplesPerReading |-> samplesPerReading, delta |-> delta,
                 prevIndex |-> li, prevTimestamp |-> lt, prevRet |-> c.lastRet[k],
                 prevArrival |-> c.lastArrival[k], ret |-> ts, subs |-> c.subs]
    IN  [c EXCEPT !.lastIndex[k] = Some(eventIndex),
                  !.lastTimestamp[k] = Some(ts),
                  !.lastRet[k] = Some(ts),
                  !.lastArrival[k] = Some(t),
                  !.calls = Append(@, call),
                  !.ret = ts]

(***************************************************************************)
(* muse-athena.ts: parseAthenaPacketForTag (the StreamRouter).             *)
(***************************************************************************)
KindOfTag(tag) ==
    IF tag = TagEEG THEN "eeg" ELSE IF tag = TagAccGyro THEN "accgyro" ELSE "optical"

Reading(stream, index, channel, timestamp, samples) ==
    [stream |-> stream, index |-> index, channel |-> channel,
     timestamp |-> timestamp, samples |-> samples]

slice(a, from, to) == subarray(a, from, to)

\* mutant: each channel's reading is stamped one sample period after the
\* previous channel's
RECURSIVE eegChannelsStaggered(_, _, _, _, _)
eegChannelsStaggered(c, eventIndex, timestamp, allSamples, ch) ==
    IF ~(ch < 8 /\ ch * 2 < Len(allSamples)) THEN c
    ELSE LET samplesArr == subarray(allSamples, ch * 2, ch * 2 + 2)
             c2 == IF Len(samplesArr) = 2
                   THEN [c EXCEPT !.out = Append(@,
                            [stream |-> TagEEG, index |-> eventIndex, channel |-> ch,
                             timestamp |-> timestamp + ch * ((1000 * TS) \div 256),
                             samples |-> samplesArr])]
                   ELSE c
         IN  eegChannelsStaggered(c2, eventIndex, timestamp, allSamples, ch + 1)

\* mutant: a reading is put in front of the readings published before it
RECURSIVE eegChannelsNewestFirst(_, _, _, _, _)
eegChannelsNewestFirst(c, eventIndex, timestamp, allSamples, ch) ==
    IF ~(ch < 8 /\ ch * 2 < Len(allSamples)) THEN c
    ELSE LET samplesArr == subarray(allSamples, ch * 2, ch * 2 + 2)
             c2 == IF Len(samplesArr) = 2
                   THEN [c EXCEPT !.out =
                            <<[stream |-> TagEEG, index |-> eventIndex, channel |-> ch,
                               timestamp |-> timestamp, samples |-> samplesArr]>> \o @]
                   ELSE c
         IN  eegChannelsNewestFirst(c2, eventIndex, timestamp, allSamples, ch + 1)

RECURSIVE eegChannels(_, _, _, _, _)
eegChannels(c, eventIndex, timestamp, allSamples, ch) ==
    IF ~(ch < 8 /\ ch * 2 < Len(allSamples)) THEN c
    ELSE LET samplesArr == slice(allSamples, ch * 2, ch * 2 + 2)
             c2 == IF Len(samplesArr) = 2
                   THEN [c EXCEPT !.out = Append(@,
                            Reading(TagEEG, eventIndex, ch, timestamp, samplesArr))]
                   ELSE c
         IN  eegChannels(c2, eventIndex, timestamp, allSamples, ch + 1)

RECURSIVE eegEntries(_, _, _, _, _)
eegEntries(c, eventIndex, timestamp, entries, e) ==
    IF e > Len(entries) THEN c
    ELSE eegEntries(eegChannels(c, eventIndex, timestamp, entries[e].data, 0),
                    eventIndex, timestamp, entries, e + 1)

RECURSIVE accGyroSamples(_, _, _, _, _)
accGyroSamples(c, eventIndex, entries, t, i) ==
    IF i >= 3 THEN c
    ELSE LET c1 == getAthenaTimestamp(c, eventIndex, 1, 52, "accgyro", t)
             hasAcc == i * 2 + 1 <= Len(entries)
             hasGyro == i * 2 + 2 <= Len(entries)
             gyro == IF hasGyro THEN entries[i * 2 + 2].data ELSE <<0, 0, 0>>
             c2 == IF hasAcc /\ entries[i * 2 + 1].type = "ACC"
                   THEN [c1 EXCEPT !.out = Append(@,
                            Reading(TagAccGyro, eventIndex, 0, c1.ret,
                                    entries[i * 2 + 1].data \o gyro))]
                   ELSE c1
         IN  accGyroSamples(c2, eventIndex, entries, t, i + 1)

RECURSIVE opticalSamples(_, _, _, _, _)
opticalSamples(c, eventIndex, entries, t, i) ==
    IF i >= 3 THEN c
    ELSE LET c1 == getAthenaTimestamp(c, eventIndex, 1, 64, "optical", t)
             c2 == IF i + 1 <= Len(entries) /\ entries[i + 1].type = "OPTICAL"
                   THEN [c1 EXCEPT !.out = Append(@,
                            Reading(TagOptical, eventIndex, i % 3, c1.ret,
                                    entries[i + 1].data))]
                   ELSE c1
         IN  opticalSamples(c2, eventIndex, entries, t, i + 1)

MarkTime(c, eventIndex, tag, t) ==
    getAthenaTimestamp(c, eventIndex, 1, 256, KindOfTag(tag), t)

RouteTag(c, eventIndex, tag, targetTag, entries, t) ==
    IF tag = targetTag
    THEN IF tag = TagEEG
         THEN LET c1 == getAthenaTimestamp(c, eventIndex, 2, 256, "eeg", t)
              IN  eegEntries(c1, eventIndex, c1.ret, entries, 1)
         ELSE IF tag = TagAccGyro THEN accGyroSamples(c, eventIndex, entries, t, 0)
         ELSE IF tag = TagOptical THEN opticalSamples(c, eventIndex, entries, t, 0)
         ELSE c
    ELSE IF tag = TagEEG \/ tag = TagAccGyro \/ tag = TagOptical
         THEN MarkTime(c, eventIndex, tag, t)
         ELSE c

RECURSIVE routeLoop(_, _, _, _, _)
routeLoop(c, packet, targetTag, idx, t) ==
    IF ~(idx < Len(packet)) THEN c
    ELSE LET tag == ByteAt(packet, idx)
             p == PacketTable[packet][idx]
         IN  IF p.raised THEN routeLoop(c, packet, targetTag, idx + 1, t)
             ELSE routeLoop(RouteTag(c, ByteAt(packet, 1), tag, targetTag, p.entries, t),
                            packet, targetTag,
                            IF p.next <= idx THEN idx + 1 ELSE p.next, t)

\* mutant: the pipeline's clock is stamped before the length is looked at
parseAthenaPacketForTagStampsFirst(c, packet, targetTag, t) ==
    LET c1 == getAthenaTimestamp(c, 0, 1, 256, KindOfTag(targetTag), t)
    IN  IF Len(packet) < 10 THEN c1
        ELSE routeLoop(c1, packet, targetTag, 9, t)

parseAthenaPacketForTag(c, packet, targetTag, t) ==
    IF Len(packet) < 10 THEN c
    ELSE routeLoop(c, packet, targetTag, 9, t)

\* rawSensorPackets$ hands the buffer to the n-th subscribed pipeline, if
\* there is one (there are three pipelines to subscribe to)
Dispatch(c, packet, subs, n, t) ==
    IF n > Len(subs) THEN c
    ELSE parseAthenaPacketForTag(c, packet, subs[n], t)

(***************************************************************************)
(* State after construction of a MuseAthenaClient.                         *)
(***************************************************************************)
NoClock == [k \in Kinds |-> NULL]

ClientInit ==
    /\ gatt = "null"
    /\ deviceConnected = FALSE
    /\ armed = FALSE
    /\ hasControlChar = FALSE
    /\ connectionStatus = FALSE
    /\ lastIndex = NoClock
    /\ lastTimestamp = NoClock
    /\ subscribed = <<>>
    /\ links = <<>>
    /\ writes = <<>>
    /\ startProc = [st |-> "idle", step |-> 0, preset |-> "", link |-> 0, runs |-> 0]
    /\ callsMade = 0
    /\ epoch = 0
    /\ lastRet = NoClock
    /\ lastArrival = NoClock
    /\ calls = <<>>
    /\ out = <<>>
    /\ dispatches = 0

\* counts holds one [name, packets, samples] per key, in insertion order;
\* caught is history: the number of times the loop's catch block has run
NoTally == [counts |-> <<>>, unknownSuppressed |-> FALSE, caught |-> 0]

NoArg == [fn |-> "", w |-> 0, v |-> 0]

NoInfo == [st |-> "idle", link |-> 0]

NoTwin == [lastIndex |-> NoClock, lastTimestamp |-> NoClock, ret |-> NULL]

\* no decoder call, no scan and no second client
ToolsIdle ==
    /\ scanBuf = <<>>
    /\ scanIdx = 0
    /\ callTag = 0
    /\ decoded = NULL
    /\ arg = NoArg
    /\ scanner = ""
    /\ target = 0
    /\ phase = "idle"
    /\ trail = <<>>
    /\ tally = NoTally
    /\ twin = NoTwin
    /\ clockNow = StartNow
    /\ nCalls = 0
    /\ kindUnderTest = ""
    /\ infoProc = NoInfo
    /\ fwAnswers = 0

Init == ClientInit /\ ToolsIdle

(***************************************************************************)
(* Connection life cycle.                                                  *)
(***************************************************************************)
\* connect(): a new connection to the device; the clocks and commandLock are
\* not assigned anywhere in it
Connect ==
    /\ ~deviceConnected
    /\ epoch < MaxConnects
    /\ gatt' = "set"
    /\ deviceConnected' = TRUE
    /\ armed' = TRUE
    /\ hasControlChar' = TRUE
    /\ connectionStatus' = TRUE
    /\ subscribed' = <<>>
    /\ epoch' = epoch + 1
    /\ lastRet' = NoClock
    /\ lastArrival' = NoClock
    /\ calls' = <<>>
    /\ out' = <<>>
    /\ UNCHANGED <<toolVars, clockVars, cmdVars, dispatches>>

\* the subscriber of fromEvent(device, 'gattserverdisconnected').pipe(first())
OnGattServerDisconnected(g, st) ==
    IF armed THEN [gatt |-> "null", status |-> FALSE] ELSE [gatt |-> g, status |-> st]

\* the transport drops the connection and dispatches gattserverdisconnected
TransportDisconnect ==
    /\ deviceConnected
    /\ deviceConnected' = FALSE
    /\ LET h == OnGattServerDisconnected(gatt, connectionStatus)
       IN  gatt' = h.gatt /\ connectionStatus' = h.status
    /\ armed' = FALSE
    /\ subscribed' = <<>>
    /\ UNCHANGED <<toolVars, hasControlChar, epoch, clockVars, cmdVars, histVars>>

\* disconnect(): gatt.disconnect() makes the transport dispatch the event too
Disconnect ==
    IF gatt = "set"
    THEN /\ lastIndex' = NoClock
         /\ lastTimestamp' = NoClock
         /\ IF deviceConnected
            THEN /\ deviceConnected' = FALSE
                 /\ gatt' = OnGattServerDisconnected(gatt, connectionStatus).gatt
                 /\ armed' = FALSE
                 /\ subscribed' = <<>>
            ELSE UNCHANGED <<deviceConnected, gatt, armed, subscribed>>
         /\ connectionStatus' = FALSE
         /\ UNCHANGED <<toolVars, hasControlChar, epoch, cmdVars, histVars>>
    ELSE UNCHANGED vars

(***************************************************************************)
(* The data channel.                                                       *)
(***************************************************************************)
Range(s) == {s[i] : i \in 1..Len(s)}

\* the application subscribes to eegReadings / accGyroReadings / opticalReadings
Subscribe(tag) ==
    /\ deviceConnected
    /\ tag \notin Range(subscribed)
    /\ Len(subscribed) < MaxSubs
    /\ subscribed' = Append(subscribed, tag)
    /\ UNCHANGED <<toolVars, connVars, clockVars, cmdVars, histVars>>

\* one characteristicvaluechanged event of the sensor characteristic, handled
\* while Date.now() reads t (the wall clock may step forward or backward)
Handle(buf, t) ==
    /\ deviceConnected
    /\ subscribed # <<>>
    /\ dispatches < MaxDispatch
    /\ LET c0 == [lastIndex |-> lastIndex, lastTimestamp |-> lastTimestamp,
                  lastRet |-> lastRet, lastArrival |-> lastArrival,
                  calls |-> <<>>, out |-> <<>>, ret |-> 0, subs |-> subscribed]
       IN  \E c1 \in {Dispatch(c0, buf, subscribed, 1, t)} :
           \E c2 \in {Dispatch(c1, buf, subscribed, 2, t)} :
           \E c \in {Dispatch(c2, buf, subscribed, 3, t)} :
           /\ lastIndex' = c.lastIndex
           /\ lastTimestamp' = c.lastTimestamp
           /\ lastRet' = c.lastRet
           /\ lastArrival' = c.lastArrival
           /\ calls' = c.calls
           /\ out' = c.out
    /\ dispatches' = dispatches + 1
    /\ UNCHANGED <<connVars, subscribed, cmdVars>>

\* the event is handled by the subscribed sensor pipelines
Notify(buf, t) ==
    /\ Handle(buf, t)
    /\ UNCHANGED toolVars

NextStream ==
    \/ Connect
    \/ TransportDisconnect
    \/ Disconnect
    \/ \E tag \in {TagEEG, TagAccGyro, TagOptical} : Subscribe(tag)
    \/ \E buf \in Buffers, t \in Times : Notify(buf, t)

SpecStream == Init /\ [][NextStream]_vars

(***************************************************************************)
(* The control channel: ATHENA_COMMANDS, sendCommand and the promise chain *)
(* behind this.commandLock.  links[i] is the promise the i-th sendCommand  *)
(* call stored in commandLock; its callback runs once links[i - 1] is      *)
(* fulfilled (Promise.resolve() for i = 1) and is skipped, rejecting       *)
(* links[i], once links[i - 1] is rejected.                                *)
(*   queued   - waiting for the previous link                              *)
(*   writing  - writeValueWithoutResponse called, not settled              *)
(*   delay    - write fulfilled, in delay(50)                              *)
(*   resolved / rejected - settled                                         *)
(***************************************************************************)
ATHENA_COMMANDS ==
    [v4    |-> <<3, 118, 52, 10>>,
     v6    |-> <<3, 118, 54, 10>>,
     s     |-> <<2, 115, 10>>,
     h     |-> <<2, 104, 10>>,
     p21   |-> <<4, 112, 50, 49, 10>>,
     p1034 |-> <<6, 112, 49, 48, 51, 52, 10>>,
     p1035 |-> <<6, 112, 49, 48, 51, 53, 10>>,
     p1045 |-> <<6, 112, 49, 48, 52, 53, 10>>,
     d     |-> <<2, 100, 10>>,
     dc001 |-> <<6, 100, 99, 48, 48, 49, 10>>,
     L1    |-> <<3, 76, 49, 10>>]

Presets == {"p1045", "pX"}   \* presets start() is called with; pX is not in the table

\* mutant: the callback runs as soon as the previous write is fulfilled,
\* without waiting for its delay(50)
ThenRunsAfterWrite(prevSt) == prevSt \in {"delay", "resolved"}

\* mutant: the callback does not wait for the previous link
ThenRunsAtOnce(prevSt) == prevSt # "rejected"

\* .then(cb) on the previous link: cb runs only when that link is fulfilled
ThenRuns(prevSt) == prevSt = "resolved"

\* run the promise reactions that are ready (the microtasks after an event)
RECURSIVE Pump(_, _, _)
Pump(ls, ws, i) ==
    IF i > Len(ls) THEN [links |-> ls, writes |-> ws]
    ELSE LET prevSt == IF i = 1 THEN "resolved" ELSE ls[i - 1].st
         IN  IF ls[i].st # "queued" THEN Pump(ls, ws, i + 1)
             ELSE IF prevSt = "rejected"
                  THEN Pump([ls EXCEPT ![i].st = "rejected"], ws, i + 1)
             ELSE IF ThenRuns(prevSt)
                  THEN IF hasControlChar
                       THEN Pump([ls EXCEPT ![i].st = "writing"],
                                 Append(ws, [link |-> i, cmd |-> ls[i].cmd,
                                             by |-> ls[i].by, gatt |-> gatt]),
                                 i + 1)
                       ELSE Pump([ls EXCEPT ![i].st = "rejected"], ws, i + 1)
             ELSE Pump(ls, ws, i + 1)

\* mutant: the new callback is put ahead of the ones already chained
chainAhead(ls, cmd, by) == <<[cmd |-> cmd, by |-> by, st |-> "queued"]>> \o ls

\* this.commandLock = this.commandLock.then(..): the new link is chained on
\* the last one
chain(ls, cmd, by) == Append(ls, [cmd |-> cmd, by |-> by, st |-> "queued"])

\* mutant: the name is looked up inside the chained callback, so the link is
\* chained (and the bytes written) before the error is raised
sendCommandChecksLate(ls, ws, cmd, by) ==
    LET r == Pump(chain(ls, cmd, by), ws, 1)
    IN  [thrown |-> cmd \notin DOMAIN ATHENA_COMMANDS, links |-> r.links, writes |-> r.writes]

\* sendCommand(cmd): throws for a name outside the table, else chains a link
sendCommand(ls, ws, cmd, by) ==
    IF cmd \notin DOMAIN ATHENA_COMMANDS
    THEN [thrown |-> TRUE, links |-> ls, writes |-> ws]
    ELSE LET r == Pump(chain(ls, cmd, by), ws, 1)
         IN  [thrown |-> FALSE, links |-> r.links, writes |-> r.writes]

\* mutant: the start-streaming command is sent once
StartCommandsOnce(preset) == <<"v4", "s", "h", preset, "dc001", "L1">>

\* the commands of start(preset), in program order
StartCommands(preset) == <<"v4", "s", "h", preset, "dc001", "dc001", "L1">>

\* mutant: a rejected link resumes start() like a fulfilled one
SettleSwallowsRejection(sp, ls) ==
    IF sp.st # "await" THEN sp
    ELSE IF ls[sp.link].st \in {"resolved", "rejected"} THEN [sp EXCEPT !.st = "delay"]
    ELSE sp

\* start() resumes from `await this.sendCommand(..)` when its link settles
Settle(sp, ls) ==
    IF sp.st # "await" THEN sp
    ELSE IF ls[sp.link].st = "resolved" THEN [sp EXCEPT !.st = "delay"]
    ELSE IF ls[sp.link].st = "rejected" THEN [sp EXCEPT !.st = "failed"]
    ELSE sp

\* start(preset) is called: runs up to the first await
Start(preset) ==
    /\ startProc.st \in {"idle", "done", "failed"}
    /\ callsMade < MaxOps
    /\ \E r \in {sendCommand(links, writes, StartCommands(preset)[1], "start")} :
           /\ links' = r.links
           /\ writes' = r.writes
           /\ startProc' = Settle([st |-> "await", step |-> 1, preset |-> preset,
                                   link |-> Len(r.links), runs |-> startProc.runs + 1],
                                  r.links)
    /\ callsMade' = callsMade + 1
    /\ UNCHANGED <<toolVars, connVars, clockVars, subscribed, histVars>>

\* the delay after a command of start() elapses: the next command is sent,
\* or start() returns after the last one
StartStep ==
    /\ startProc.st = "delay"
    /\ IF startProc.step = Len(StartCommands(startProc.preset))
       THEN /\ startProc' = [startProc EXCEPT !.st = "done"]
            /\ UNCHANGED <<links, writes>>
       ELSE \E r \in {sendCommand(links, writes,
                                   StartCommands(startProc.preset)[startProc.step + 1],
                                   "start")} :
                /\ links' = r.links
                /\ writes' = r.writes
                /\ startProc' =
                     IF r.thrown THEN [startProc EXCEPT !.st = "failed"]
                     ELSE Settle([startProc EXCEPT !.st = "await",
                                                   !.step = @ + 1,
                                                   !.link = Len(r.links)],
                                 r.links)
    /\ UNCHANGED <<toolVars, connVars, clockVars, subscribed, callsMade, histVars>>

\* mutant: the command is sent twice, as start() does for dc001
CallTwice(op) ==
    /\ callsMade < MaxOps
    /\ \E r1 \in {sendCommand(links, writes, [pause |-> "h", resume |-> "dc001",
                                                stop |-> "h", deviceInfo |-> "v6"][op], op)} :
       \E r \in {sendCommand(r1.links, r1.writes, r1.links[Len(r1.links)].cmd, op)} :
           /\ links' = r.links
           /\ writes' = r.writes
           /\ startProc' = Settle(startProc, r.links)
    /\ callsMade' = callsMade + 1
    /\ UNCHANGED <<toolVars, connVars, clockVars, subscribed, histVars>>

\* pause(), resume(), stop() and deviceInfo() make one sendCommand call each
CallerCommand == [pause |-> "h", resume |-> "dc001", stop |-> "h", deviceInfo |-> "v6"]

\* deviceInfo() called before connect() throws on the undefined
\* controlResponses, before its sendCommand call
Call(op) ==
    /\ callsMade < MaxOps
    /\ \E r \in {IF op = "deviceInfo" /\ ~hasControlChar
                 THEN [thrown |-> TRUE, links |-> links, writes |-> writes]
                 ELSE sendCommand(links, writes, CallerCommand[op], op)} :
           /\ links' = r.links
           /\ writes' = r.writes
           /\ startProc' = Settle(startProc, r.links)
    /\ callsMade' = callsMade + 1
    /\ UNCHANGED <<toolVars, connVars, clockVars, subscribed, histVars>>

\* the transport fulfils the write in flight (the device is connected)
WriteDone(i) ==
    /\ links[i].st = "writing"
    /\ deviceConnected
    /\ links' = [links EXCEPT ![i].st = "delay"]
    /\ UNCHANGED <<toolVars, writes, startProc, callsMade, connVars, clockVars, subscribed,
                   histVars>>

\* the transport rejects the write in flight (the device is not connected)
WriteFail(i) ==
    /\ links[i].st = "writing"
    /\ ~deviceConnected
    /\ \E r \in {Pump([links EXCEPT ![i].st = "rejected"], writes, 1)} :
           /\ links' = r.links
           /\ writes' = r.writes
           /\ startProc' = Settle(startProc, r.links)
    /\ UNCHANGED <<toolVars, callsMade, connVars, clockVars, subscribed, histVars>>

\* the timer of delay(50) in a link fires: the link is fulfilled
DelayElapsed(i) ==
    /\ links[i].st = "delay"
    /\ \E r \in {Pump([links EXCEPT ![i].st = "resolved"], writes, 1)} :
           /\ links' = r.links
           /\ writes' = r.writes
           /\ startProc' = Settle(startProc, r.links)
    /\ UNCHANGED <<toolVars, callsMade, connVars, clockVars, subscribed, histVars>>

NextControl ==
    \/ Connect
    \/ TransportDisconnect
    \/ Disconnect
    \/ \E preset \in Presets : Start(preset)
    \/ StartStep
    \/ \E op \in DOMAIN CallerCommand : Call(op)
    \/ \E i \in 1..Len(links) : WriteDone(i)
    \/ \E i \in 1..Len(links) : WriteFail(i)
    \/ \E i \in 1..Len(links) : DelayElapsed(i)

SpecControl == Init /\ [][NextControl]_vars

(***************************************************************************)
(* Properties of the control channel (checked under SpecControl).          *)
(***************************************************************************)
WrittenCmds == [i \in 1..Len(writes) |-> writes[i].cmd]

IsPrefix(a, b) == Len(a) <= Len(b) /\ a = SubSeq(b, 1, Len(a))

OnlyOneStartRan ==
    /\ startProc.runs = 1
    /\ startProc.preset \in DOMAIN ATHENA_COMMANDS
    /\ \A i \in 1..Len(links) : links[i].by = "start" /\ links[i].st # "rejected"

\* C1: with start(preset) the only caller and every write succeeding, the
\* writes on the control channel are v4, s, h, <preset>, dc001, dc001, L1 in
\* this order and nothing else; when start() has returned all 7 have been
\* written and their links are fulfilled.
C1_StartSequence ==
    OnlyOneStartRan =>
        LET expected == <<"v4", "s", "h", startProc.preset, "dc001", "dc001", "L1">>
        IN  /\ IsPrefix(WrittenCmds, expected)
            /\ startProc.st = "done" =>
                   /\ WrittenCmds = expected
                   /\ \A i \in 1..Len(links) : links[i].st = "resolved"

C1_Witness ==
    /\ OnlyOneStartRan
    /\ startProc.st = "done"
    /\ Len(writes) = 7

\* C2: a halt written for pause() is never placed between two writes of the
\* start sequence.
C2_NoInterleaving ==
    startProc.runs = 1 =>
        \A i, j, k \in 1..Len(writes) :
            (i < j /\ j < k /\ writes[i].by = "start" /\ writes[k].by = "start")
                => writes[j].by # "pause"

\* C3: a write to the control characteristic is in flight only when every
\* link queued before it is fulfilled, so two writes are never in flight at once.
C3_OneWriteInFlight ==
    \A i \in 1..Len(links) :
        links[i].st = "writing" =>
            \A j \in 1..Len(links) : j < i => links[j].st = "resolved"

C3_Witness ==
    \E i, j \in 1..Len(links) :
        /\ i < j
        /\ links[i].st = "writing"
        /\ links[j].st = "queued"
        /\ links[i].by # links[j].by

\* C4: every write on the control channel is issued while this.gatt is set,
\* that is, never after the gattserverdisconnected handler has run.
C4_NoWriteAfterDisconnect ==
    \A i \in 1..Len(writes) : writes[i].gatt = "set"

(***************************************************************************)
(* Properties of the connection life cycle and of the StreamClocks         *)
(* (checked under SpecStream).                                             *)
(***************************************************************************)
ClocksEmpty == lastIndex = NoClock /\ lastTimestamp = NoClock

QueueInitial == \A i \in 1..Len(links) : links[i].st = "resolved"

\* C5: once the gattserverdisconnected handler has run (this.gatt is null)
\* the three StreamClocks are empty.
C5_DisconnectEventResetsClocks ==
    gatt = "null" => ClocksEmpty

\* C6: every connect() starts a connection with the three StreamClocks empty
\* and the command queue in its initial state.
C6_FreshStateAtConnect ==
    [][epoch' # epoch => (ClocksEmpty /\ QueueInitial)']_vars

Interval(call) == (1000 * TS * call.samplesPerReading) \div call.frequency

CallsOf(k) == {n \in 1..Len(calls) : calls[n].kind = k}

\* C7: every getAthenaTimestamp call returns now - interval when the kind's
\* clock is empty or now is more than 500 ms past the stored timestamp, else
\* the stored timestamp + interval, with interval = 1000 / frequency *
\* samplesPerReading; the returned value is what the next call of the kind
\* finds stored (and what is stored after the last call).
C7_TimestampRule ==
    \A n \in 1..Len(calls) :
        LET call == calls[n]
            nowU == call.now * TS
            empty == call.prevIndex = NULL \/ call.prevTimestamp = NULL
            later == {m \in CallsOf(call.kind) : m > n}
        IN  /\ call.ret =
                  IF empty \/ nowU - Val(call.prevTimestamp) > 500 * TS
                  THEN nowU - Interval(call)
                  ELSE Val(call.prevTimestamp) + Interval(call)
            /\ \A m \in later :
                  (\A x \in later : m <= x) => calls[m].prevTimestamp = Some(call.ret)
            /\ (later = {} /\ deviceConnected) => lastTimestamp[call.kind] = Some(call.ret)

C7_Witness ==
    /\ \E n \in 1..Len(calls) :
          /\ calls[n].prevTimestamp # NULL
          /\ calls[n].now * TS - Val(calls[n].prevTimestamp) > 500 * TS
    /\ \E n \in 1..Len(calls) :
          /\ calls[n].prevTimestamp # NULL
          /\ calls[n].now * TS - Val(calls[n].prevTimestamp) <= 500 * TS
          /\ calls[n].samplesPerReading = 2

\* C8: within one connection, a timestamp returned for a kind is never
\* smaller than the one returned before it for that kind.
C8_NonDecreasing ==
    \A n \in 1..Len(calls) :
        calls[n].prevRet # NULL => calls[n].ret >= Val(calls[n].prevRet)

\* a call that recalibrates after an earlier call of the kind in the connection
C8_Witness ==
    \E n \in 1..Len(calls) :
        /\ calls[n].prevRet # NULL
        /\ calls[n].now * TS - Val(calls[n].prevRet) > 500 * TS
        /\ calls[n].ret > Val(calls[n].prevRet)

\* a call made after the wall clock has stepped backward
C8_BackwardStep ==
    \E n \in 1..Len(calls) :
        /\ calls[n].prevArrival # NULL
        /\ calls[n].now < Val(calls[n].prevArrival)

\* C9 as stated: when the arrival gap to the previous same-kind call is below
\* 500 ms the timestamp is the previous one + interval; when the gap exceeds
\* 500 ms it is now - interval.
C9_ArrivalGapRule ==
    \A n \in 1..Len(calls) :
        LET call == calls[n]
        IN  (call.prevArrival # NULL /\ Len(call.subs) = 1) =>
               /\ call.now - Val(call.prevArrival) < 500
                     => call.ret = Val(call.prevRet) + call.delta
               /\ call.now - Val(call.prevArrival) > 500
                     => call.ret = call.now * TS - call.delta

\* C9 amended: the rule is decided by how far now is past the previous
\* returned timestamp of the kind, not by the arrival gap: at most 500 ms
\* past it, the timestamp is the previous one + interval; more than 500 ms
\* past it, the timestamp is now - interval.
C9_LagRule ==
    \A n \in 1..Len(calls) :
        LET call == calls[n]
        IN  call.prevRet # NULL =>
               /\ call.now * TS - Val(call.prevRet) <= 500 * TS
                     => call.ret = Val(call.prevRet) + call.delta
               /\ call.now * TS - Val(call.prevRet) > 500 * TS
                     => call.ret = call.now * TS - call.delta

\* an arrival gap below 500 ms at which the clock is nevertheless recalibrated
C9_Witness ==
    \E n \in 1..Len(calls) :
        /\ calls[n].prevArrival # NULL
        /\ calls[n].now - Val(calls[n].prevArrival) < 500
        /\ calls[n].now - Val(calls[n].prevArrival) > 0
        /\ calls[n].ret = calls[n].now * TS - calls[n].delta

NominalInterval(k) ==
    IF k = "eeg" THEN (1000 * TS * 2) \div 256
    ELSE IF k = "accgyro" THEN (1000 * TS) \div 52
    ELSE (1000 * TS) \div 64

StreamOf(k) ==
    IF k = "eeg" THEN TagEEG ELSE IF k = "accgyro" THEN TagAccGyro ELSE TagOptical

EmittedTimestamps(k) ==
    {out[i].timestamp : i \in {j \in 1..Len(out) : out[j].stream = StreamOf(k)}}

\* C10: for every kind whose stream is subscribed, one notification advances
\* the kind's clock once per emitted timestamp, each time by the kind's
\* nominal interval, whichever other streams are subscribed.
C10_OneAdvancePerTimestamp ==
    \A k \in Kinds :
        (deviceConnected /\ StreamOf(k) \in Range(subscribed)
            /\ \A n \in CallsOf(k) : calls[n].subs = subscribed) =>
            /\ Cardinality(CallsOf(k)) = Cardinality(EmittedTimestamps(k))
            /\ \A n \in CallsOf(k) : calls[n].delta = NominalInterval(k)

(***************************************************************************)
(* The decoder on its own: one call parsePacket(data, tag, tagIndex,       *)
(* false), for every buffer of DecodeBuffers, every tag byte and every     *)
(* offset up to the end of the buffer.                                     *)
(***************************************************************************)
SubHeaders == {<<0, 0, 0, 0>>, <<236, 65, 18, 255>>}

PacketWith(t, sub, n, seed) == <<t>> \o sub \o Payload(n, seed)

DecodeBuffers ==
    { PacketWith(TagEEG, <<236, 65, 18, 255>>, 28, 11),
      PacketWith(TagAccGyro, <<0, 0, 0, 0>>, 36, 201),
      PacketWith(TagOptical, <<236, 65, 18, 255>>, 30, 5),
      PacketWith(TagBattery, <<1, 2, 3, 4>>, 20, 77) \o <<83, 1, 2>>,
      PacketWith(83, <<236, 65, 18, 255>>, 7, 3) \o PacketWith(TagEEG, <<0, 0, 0, 0>>, 28, 11),
      <<>> }

TagBytes == 0..255

InitDecode ==
    /\ ClientInit
    /\ scanBuf \in DecodeBuffers
    /\ scanIdx \in 0..Len(scanBuf)
    /\ callTag \in TagBytes
    /\ decoded = NULL
    /\ arg = NoArg
    /\ scanner = ""
    /\ target = 0
    /\ phase = "idle"
    /\ trail = <<>>
    /\ tally = NoTally
    /\ twin = NoTwin
    /\ clockNow = StartNow
    /\ nCalls = 0
    /\ kindUnderTest = ""
    /\ infoProc = NoInfo
    /\ fwAnswers = 0

\* parsePacket(scanBuf, callTag, scanIdx, false)
Decode ==
    /\ decoded = NULL
    /\ decoded' = Some(parsePacket(scanBuf, callTag, scanIdx))
    /\ UNCHANGED <<clientVars, scanBuf, scanIdx, callTag, arg, scanVars, twinVars, infoVars>>

NextDecode == Decode

SpecDecode == InitDecode /\ [][NextDecode]_vars

(***************************************************************************)
(* Properties of the decoder (checked under SpecDecode).                   *)
(***************************************************************************)
ImplementedTags == {18, 71, 52, 136}

StatedPayloadLen(t) ==
    IF t = 18 THEN 28 ELSE IF t = 71 THEN 36 ELSE IF t = 52 THEN 30 ELSE 20

PayloadFits == scanIdx + 5 + StatedPayloadLen(callTag) <= Len(scanBuf)

C15_TruncatedReturnsPartial ==
    (decoded # NULL /\ callTag \in ImplementedTags /\ ~PayloadFits) =>
        /\ ~Val(decoded).raised
        /\ Val(decoded).name = "partial"
        /\ Val(decoded).entries = <<>>
        /\ Val(decoded).next = scanIdx + 1

WithSubHeader(data, tagIndex, sub) ==
    [i \in 1..Len(data) |->
        IF i - 1 > tagIndex /\ i - 1 <= tagIndex + 4 THEN sub[i - 1 - tagIndex] ELSE data[i]]

\* C16: for an implemented tag whose payload fits in the buffer, parsePacket
\* returns next offset = tagIndex + 5 + payload length (28 for 0x12, 36 for
\* 0x47, 30 for 0x34, 20 for 0x88), and the decoded values are the same
\* whatever the 4 bytes after the tag are.
C16_NextOffsetAndSubHeader ==
    (decoded # NULL /\ callTag \in ImplementedTags /\ PayloadFits) =>
        /\ ~Val(decoded).raised
        /\ Val(decoded).next = scanIdx + 5 + StatedPayloadLen(callTag)
        /\ \A sub \in SubHeaders :
              LET other == parsePacket(WithSubHeader(scanBuf, scanIdx, sub), callTag, scanIdx)
              IN  /\ other.entries = Val(decoded).entries
                  /\ other.next = Val(decoded).next

\* a packet decoded at its tag whose sub-header bytes are not all zero
C16_Witness ==
    /\ decoded # NULL
    /\ callTag \in ImplementedTags
    /\ PayloadFits
    /\ callTag = ByteAt(scanBuf, scanIdx)
    /\ ByteAt(scanBuf, scanIdx + 3) = 18
    /\ Val(decoded).entries # <<>>

\* C17: a packet with tag 0x53 and at least 7 payload bytes is decoded as one
\* entry of 14-bit values and parsing resumes at tagOffset + 5 + 7.
C17_ReferenceTagDecoded ==
    (decoded # NULL /\ callTag = 83 /\ scanIdx + 5 + 7 <= Len(scanBuf)) =>
        /\ ~Val(decoded).raised
        /\ Len(Val(decoded).entries) = 1
        /\ Val(decoded).next = scanIdx + 5 + 7

(***************************************************************************)
(* The StreamClocks on their own: getAthenaTimestamp called on two clients *)
(* in lockstep.  Both are called for the same kind with the same           *)
(* samplesPerReading and frequency while Date.now() reads the same value;  *)
(* each is given an event index of its own.  The wall clock does not step  *)
(* backward here.  The first client is the client state itself, the        *)
(* second one is twin.                                                     *)
(***************************************************************************)
MaxCalls == 30   \* getAthenaTimestamp calls on each client in one behaviour

EventIndices == {3, 4}   \* values of packet[1]

\* (samplesPerReading, frequency) at the call sites of parseAthenaPacketForTag:
\* the kind's own pipeline, and the other pipelines marking time
CallShapes(k) ==
    { IF k = "eeg" THEN <<2, 256>> ELSE IF k = "accgyro" THEN <<1, 52>> ELSE <<1, 64>>,
      <<1, 256>> }

InitClock ==
    /\ ClientInit
    /\ kindUnderTest \in Kinds
    /\ infoProc = NoInfo
    /\ fwAnswers = 0
    /\ twin = NoTwin
    /\ clockNow = StartNow
    /\ nCalls = 0
    /\ scanBuf = <<>>
    /\ scanIdx = 0
    /\ callTag = 0
    /\ decoded = NULL
    /\ arg = NoArg
    /\ scanner = ""
    /\ target = 0
    /\ phase = "idle"
    /\ trail = <<>>
    /\ tally = NoTally

ClockCall(shape, indexA, indexB, t) ==
    /\ nCalls < MaxCalls
    /\ t >= clockNow
    /\ LET a0 == [lastIndex |-> lastIndex, lastTimestamp |-> lastTimestamp,
                  lastRet |-> lastRet, lastArrival |-> lastArrival,
                  calls |-> <<>>, out |-> <<>>, ret |-> 0, subs |-> <<>>]
           b0 == [a0 EXCEPT !.lastIndex = twin.lastIndex,
                            !.lastTimestamp = twin.lastTimestamp]
       IN  \E a \in {getAthenaTimestamp(a0, indexA, shape[1], shape[2], kindUnderTest, t)},
              b \in {getAthenaTimestamp(b0, indexB, shape[1], shape[2], kindUnderTest, t)} :
              /\ lastIndex' = a.lastIndex
              /\ lastTimestamp' = a.lastTimestamp
              /\ lastRet' = a.lastRet
              /\ lastArrival' = a.lastArrival
              /\ twin' = [lastIndex |-> b.lastIndex, lastTimestamp |-> b.lastTimestamp,
                          ret |-> Some(b.ret)]
    /\ clockNow' = t
    /\ nCalls' = nCalls + 1
    /\ UNCHANGED <<connVars, subscribed, cmdVars, calls, out, dispatches, kindUnderTest, infoVars,
                   scanBuf, scanIdx, decodeVars, scanVars>>

NextClock ==
    \E shape \in CallShapes(kindUnderTest), indexA \in EventIndices,
       indexB \in EventIndices, t \in Times : ClockCall(shape, indexA, indexB, t)

SpecClock == InitClock /\ [][NextClock]_vars

(***************************************************************************)
(* Properties of the StreamClocks (checked under SpecClock).               *)
(***************************************************************************)
\* C12: two runs fed the same kinds at the same wall-clock times with
\* different event-index values return the same timestamps, call after call.
C12_IndexIndependent ==
    nCalls > 0 =>
        /\ twin.ret = lastRet[kindUnderTest]
        /\ twin.lastTimestamp = lastTimestamp

\* the two runs hold different event indices after a call that continued the
\* clock (the clock is past now - interval, which a recalibration returns)
C12_Witness ==
    /\ nCalls >= 2
    /\ lastIndex[kindUnderTest] # twin.lastIndex[kindUnderTest]
    /\ Val(lastTimestamp[kindUnderTest]) > clockNow * TS

\* C13: a timestamp is never more than 500 ms away from the wall-clock time
\* at which it is returned, behind it or ahead of it.
C13_DriftBounded ==
    lastRet[kindUnderTest] # NULL =>
        /\ clockNow * TS - Val(lastRet[kindUnderTest]) <= 500 * TS
        /\ Val(lastRet[kindUnderTest]) - clockNow * TS <= 500 * TS

\* the half of C13 the recalibration does give: a timestamp is never more
\* than 500 ms behind the wall-clock time at which it is returned
C13_NeverFarBehind ==
    lastRet[kindUnderTest] # NULL =>
        clockNow * TS - Val(lastRet[kindUnderTest]) <= 500 * TS

(***************************************************************************)
(* The scan loops, one iteration per step: parseAthenaPacketForTag         *)
(* (muse-athena.ts, scanner = "router") on a notification buffer, for one  *)
(* pipeline of a client just constructed, and packetParser                 *)
(* (athena-parser.ts, verbose = false, collect = true) on a raw buffer.    *)
(* trail is parsedPackets for packetParser; for the router it records the  *)
(* same fields of every iteration whose parsePacket call returned.         *)
(***************************************************************************)
EegPacket2 == Packet(TagEEG, 28, 150)

\* an unknown tag followed by 4 sub-header bytes and n payload bytes
UnknownPacket(t, sub, n, seed) == <<t>> \o sub \o Payload(n, seed)

\* packets the decoder does not recognize: two with an unknown tag, and a 0x47
\* packet cut after 10 of its 36 payload bytes
CorruptedPackets ==
    { UnknownPacket(255, <<0, 0, 0, 0>>, 7, 40),
      UnknownPacket(83, <<236, 65, 18, 255>>, 7, 3),
      PacketWith(TagAccGyro, <<0, 0, 0, 0>>, 10, 201) }

\* tagged packets as they follow each other in a buffer
ScanBodies ==
    { EegPacket,
      EegPacket \o <<255>> \o EegPacket2,
      EegPacket \o <<83>> \o EegPacket2,
      AccGyroPacket \o OpticalPacket \o EegPacket,
      EegPacket \o SubSeq(EegPacket2, 1, 20),
      <<>> }
    \cup {x \o EegPacket : x \in CorruptedPackets}

ScanHeader == Header(5)

RouterBuffers == {ScanHeader \o b : b \in ScanBodies} \cup {<<0, 3, 0>>}

InitScan ==
    /\ ClientInit
    /\ scanner \in {"router", "packetParser"}
    /\ scanBuf \in (IF scanner = "router" THEN RouterBuffers ELSE ScanBodies)
    /\ target \in (IF scanner = "router" THEN {TagEEG, TagAccGyro, TagOptical} ELSE {0})
    /\ phase = (IF scanner = "router" THEN "entry" ELSE "loop")
    /\ scanIdx = 0
    /\ trail = <<>>
    /\ tally = NoTally
    /\ callTag = 0
    /\ decoded = NULL
    /\ arg = NoArg
    /\ twin = NoTwin
    /\ clockNow = StartNow
    /\ nCalls = 0
    /\ kindUnderTest = ""
    /\ infoProc = NoInfo
    /\ fwAnswers = 0

\* mutant: the catch block leaves idx where it is
onCatchRetry(i) == i

\* catch { idx += 1 }
onCatch(i) == i + 1

\* if (nextIdx <= idx) idx += 1; else idx = nextIdx
advance(nextIdx, i) == IF nextIdx <= i THEN i + 1 ELSE nextIdx

ParsedPacket(i, t, p) ==
    [index |-> i, tag |-> t, type |-> p.name, samples |-> p.samples, entries |-> p.entries]

\* parseAthenaPacketForTag: the length check, eventIndex and idx = 9
RouterEntry ==
    /\ scanner = "router"
    /\ phase = "entry"
    /\ IF Len(scanBuf) < 10
       THEN phase' = "done" /\ UNCHANGED scanIdx
       ELSE phase' = "loop" /\ scanIdx' = 9
    /\ UNCHANGED <<clientVars, scanBuf, scanner, target, trail, tally, decodeVars, twinVars, infoVars>>

\* parseAthenaPacketForTag: one pass through the body of the while loop
RouterIteration ==
    /\ scanner = "router"
    /\ phase = "loop"
    /\ scanIdx < Len(scanBuf)
    /\ \E p \in {parsePacket(scanBuf, ByteAt(scanBuf, scanIdx), scanIdx)} :
          IF p.raised
          THEN /\ scanIdx' = onCatch(scanIdx)
               /\ tally' = [tally EXCEPT !.caught = @ + 1]
               /\ UNCHANGED <<clockVars, lastRet, lastArrival, calls, out, trail>>
          ELSE LET c0 == [lastIndex |-> lastIndex, lastTimestamp |-> lastTimestamp,
                          lastRet |-> lastRet, lastArrival |-> lastArrival,
                          calls |-> calls, out |-> out, ret |-> 0, subs |-> <<target>>]
               IN  \E c \in {RouteTag(c0, ByteAt(scanBuf, 1), ByteAt(scanBuf, scanIdx),
                                      target, p.entries, StartNow)} :
                      /\ lastIndex' = c.lastIndex
                      /\ lastTimestamp' = c.lastTimestamp
                      /\ lastRet' = c.lastRet
                      /\ lastArrival' = c.lastArrival
                      /\ calls' = c.calls
                      /\ out' = c.out
                      /\ trail' = Append(trail,
                                     ParsedPacket(scanIdx, ByteAt(scanBuf, scanIdx), p))
                      /\ scanIdx' = advance(p.next, scanIdx)
                      /\ UNCHANGED tally
    /\ UNCHANGED <<connVars, subscribed, cmdVars, dispatches, scanBuf, scanner, target,
                   phase, decodeVars, twinVars, infoVars>>

startsWithUnknown(name) == Len(name) >= 10 /\ SubSeq(name, 1, 10) = "UNKNOWN_0x"

\* const rec = counts[name] || { packets: 0, samples: 0 }; rec.packets += 1;
\* rec.samples += samples; counts[name] = rec
bumpCount(counts, name, samples) ==
    IF \E i \in 1..Len(counts) : counts[i].name = name
    THEN [i \in 1..Len(counts) |->
             IF counts[i].name = name
             THEN [counts[i] EXCEPT !.packets = @ + 1, !.samples = @ + samples]
             ELSE counts[i]]
    ELSE Append(counts, [name |-> name, packets |-> 1, samples |-> samples])

\* packetParser: one pass through the body of the while loop
ParserIteration ==
    /\ scanner = "packetParser"
    /\ phase = "loop"
    /\ scanIdx < Len(scanBuf)
    /\ \E p \in {parsePacket(scanBuf, ByteAt(scanBuf, scanIdx), scanIdx)} :
          IF p.raised
          THEN /\ scanIdx' = onCatch(scanIdx)
               /\ tally' = [tally EXCEPT !.caught = @ + 1]
               /\ UNCHANGED trail
          ELSE /\ IF p.name # ""
                  THEN /\ tally' =
                            IF startsWithUnknown(p.name)
                            THEN IF ~tally.unknownSuppressed
                                 THEN [tally EXCEPT
                                          !.counts = bumpCount(@, p.name, p.samples),
                                          !.unknownSuppressed = TRUE]
                                 ELSE tally
                            ELSE [tally EXCEPT
                                     !.counts = bumpCount(@, p.name, p.samples),
                                     !.unknownSuppressed = FALSE]
                       /\ trail' = Append(trail,
                                      ParsedPacket(scanIdx, ByteAt(scanBuf, scanIdx), p))
                  ELSE UNCHANGED <<tally, trail>>
               /\ scanIdx' = advance(p.next, scanIdx)
    /\ UNCHANGED <<clientVars, scanBuf, scanner, target, phase, decodeVars, twinVars, infoVars>>

\* the while condition is false: observer.complete() / return
ScanExit ==
    /\ phase = "loop"
    /\ ~(scanIdx < Len(scanBuf))
    /\ phase' = "done"
    /\ UNCHANGED <<clientVars, scanBuf, scanIdx, scanner, target, trail, tally,
                   decodeVars, twinVars, infoVars>>

NextScan ==
    \/ RouterEntry
    \/ RouterIteration
    \/ ParserIteration
    \/ ScanExit

\* both loops run to completion synchronously
SpecScan == InitScan /\ [][NextScan]_vars /\ WF_vars(NextScan)

(***************************************************************************)
(* Properties of the scan loops (checked under SpecScan).                  *)
(***************************************************************************)
ScanBase == IF scanner = "router" THEN 9 ELSE 0

ScanBody == subarray(scanBuf, ScanBase, Len(scanBuf))

IsEeg(e) == e.type = "EEG"

IsEegCall(call) == call.kind = "eeg"

ChannelPairs(values) == [j \in 1..8 |-> <<values[2 * j - 1], values[2 * j]>>]

\* C11: for every 0x12 packet the eeg pipeline decodes, it publishes exactly
\* 8 readings, electrodes 0..7 in ascending order with 2 samples each, all 8
\* carrying the timestamp returned by the one getAthenaTimestamp call made
\* for that packet.
C11_EightReadingsOneTimestamp ==
    (scanner = "router" /\ target = TagEEG) =>
        LET packets == SelectSeq(trail, IsEeg)
            stamps == SelectSeq(calls, IsEegCall)
        IN  /\ Len(stamps) = Len(packets)
            /\ Len(out) = 8 * Len(packets)
            /\ \A g \in 1..Len(packets) : \A j \in 1..8 :
                  LET r == out[8 * (g - 1) + j]
                  IN  /\ r.stream = TagEEG
                      /\ r.index = ByteAt(scanBuf, 1)
                      /\ r.channel = j - 1
                      /\ Len(r.samples) = 2
                      /\ r.samples = ChannelPairs(packets[g].entries[1].data)[j]
                      /\ r.timestamp = stamps[g].ret
                      /\ stamps[g].samplesPerReading = 2

\* the scan of a notification that carries exactly one 0x12 packet
C11_Witness ==
    /\ scanner = "router"
    /\ target = TagEEG
    /\ phase = "done"
    /\ scanBuf = ScanHeader \o EegPacket
    /\ Len(out) = 8
    /\ Len(calls) = 1

IsResyncBody(b) ==
    /\ Len(b) = 33 + 1 + 33
    /\ b[1] = 18
    /\ b[34] \notin ImplementedTags
    /\ b[35] = 18

\* C18: for a buffer made of a valid 0x12 packet, one unknown tag byte and a
\* second valid 0x12 packet, the scan yields the entries that decoding each
\* packet on its own yields, same values, same order, and between them one
\* unknown-tag skip of exactly one byte; nothing is caught.
C18_ResyncAfterUnknownTag ==
    (phase = "done" /\ IsResyncBody(ScanBody)) =>
        LET first == parsePacket(SubSeq(ScanBody, 1, 33), 18, 0)
            second == parsePacket(SubSeq(ScanBody, 35, 67), 18, 0)
        IN  /\ Len(trail) = 3
            /\ trail[1].index = ScanBase
            /\ trail[1].entries = first.entries
            /\ trail[2].index = ScanBase + 33
            /\ startsWithUnknown(trail[2].type)
            /\ trail[2].entries = <<>>
            /\ trail[3].index = ScanBase + 34
            /\ trail[3].entries = second.entries
            /\ tally.caught = 0
            /\ (scanner = "router" /\ target = TagEEG) =>
                  [i \in 1..Len(out) |-> out[i].samples]
                      = ChannelPairs(first.entries[1].data)
                        \o ChannelPairs(second.entries[1].data)
            /\ scanner = "packetParser" =>
                  tally.counts =
                      << [name |-> "EEG", packets |-> 2, samples |-> 4],
                         [name |-> trail[2].type, packets |-> 1, samples |-> 1] >>

\* the eeg pipeline has scanned such a buffer to its end
C18_Witness ==
    /\ phase = "done"
    /\ IsResyncBody(ScanBody)
    /\ scanner = "router"
    /\ target = TagEEG
    /\ Len(out) = 16

IsKnown(e) == ~startsWithUnknown(e.type)

\* C19: when a buffer holds one unrecognized or corrupted packet followed by
\* a correctly tagged 0x12 packet, the scan decodes that packet at its true
\* offset with its true values, and decodes no packet from the bytes of the
\* unrecognized one.
C19_NoDesync ==
    \A x \in CorruptedPackets :
        (phase = "done" /\ ScanBody = x \o EegPacket) =>
            LET known == SelectSeq(trail, IsKnown)
            IN  /\ Len(known) = 1
                /\ known[1].index = ScanBase + Len(x)
                /\ known[1].entries = parsePacket(EegPacket, 18, 0).entries

\* C20: the router's scan starts at offset 9, every iteration of a scan loop
\* moves the offset forward by at least 1, the loop is left only when the
\* offset has reached or passed the buffer length, and the scan ends.
C20_ScanTerminates ==
    /\ [][(phase = "entry" /\ phase' = "loop") => scanIdx' = 9]_vars
    /\ [][(phase = "loop" /\ phase' = "loop") => scanIdx' >= scanIdx + 1]_vars
    /\ [][(phase = "loop" /\ phase' = "done") => scanIdx >= Len(scanBuf)]_vars
    /\ <>(phase = "done")

\* a scan that has ended after iterations in which the decoder raised
C20_Witness ==
    /\ scanner = "router"
    /\ phase = "done"
    /\ tally.caught > 0
    /\ trail # <<>>
    /\ scanIdx = Len(scanBuf)

(***************************************************************************)
(* Further properties of the decoder (checked under SpecDecode).           *)
(***************************************************************************)
\* C21: for every buffer, tag and tag offset, every byte index parsePacket
\* and its bit-extraction helpers read lies in [0, buffer length).
C21_ReadsInsideBuffer ==
    decoded # NULL =>
        \A r \in parsePacketReads(scanBuf, callTag, scanIdx) :
            r >= 0 /\ r < Len(scanBuf)

\* a payload that ends exactly at the end of the buffer has been decoded, its
\* last byte read
C21_Witness ==
    /\ decoded # NULL
    /\ callTag \in ImplementedTags
    /\ scanIdx + 5 + StatedPayloadLen(callTag) = Len(scanBuf)
    /\ (Len(scanBuf) - 1) \in parsePacketReads(scanBuf, callTag, scanIdx)
    /\ ~Val(decoded).raised

PayloadByte(k) == ByteAt(scanBuf, scanIdx + 5 + k)

\* the k-th 16-bit little-endian field of the payload, unsigned and signed
PayloadU16(k) == PayloadByte(2 * k) + 256 * PayloadByte(2 * k + 1)

PayloadS16(k) == IF PayloadU16(k) >= 32768 THEN PayloadU16(k) - 65536 ELSE PayloadU16(k)

\* C24: for every payload that fits, 0x12 yields exactly 1 EEG entry of 16
\* values; 0x47 yields exactly 6 entries ACC, GYRO, ACC, GYRO, ACC, GYRO of 3
\* values each, taken in order from the 18 consecutive 16-bit fields (the
\* GYRO scale factor is negative); 0x34 yields exactly 3 OPTICAL entries of 4
\* values each; 0x88 yields exactly 1 BATTERY entry of 10 unscaled 16-bit
\* unsigned values.
C24_EntryShape ==
    (decoded # NULL /\ callTag \in ImplementedTags /\ PayloadFits) =>
        LET entries == Val(decoded).entries
        IN  /\ callTag = 18 =>
                  /\ Len(entries) = 1
                  /\ entries[1].type = "EEG"
                  /\ Len(entries[1].data) = 16
            /\ callTag = 71 =>
                  /\ Len(entries) = 6
                  /\ \A n \in 1..3 :
                        /\ entries[2 * n - 1].type = "ACC"
                        /\ entries[2 * n - 1].data =
                              [c \in 1..3 |-> PayloadS16(6 * (n - 1) + c - 1)]
                        /\ entries[2 * n].type = "GYRO"
                        /\ entries[2 * n].data =
                              [c \in 1..3 |-> 0 - PayloadS16(6 * (n - 1) + 3 + c - 1)]
            /\ callTag = 52 =>
                  /\ Len(entries) = 3
                  /\ \A n \in 1..3 :
                        entries[n].type = "OPTICAL" /\ Len(entries[n].data) = 4
            /\ callTag = 136 =>
                  /\ Len(entries) = 1
                  /\ entries[1].type = "BATTERY"
                  /\ entries[1].data = [i \in 1..10 |-> PayloadU16(i - 1)]

\* a 0x47 packet decoded at its tag, with a negative and a positive field
C24_Witness ==
    /\ decoded # NULL
    /\ callTag = 71
    /\ callTag = ByteAt(scanBuf, scanIdx)
    /\ PayloadFits
    /\ \E k \in 0..17 : PayloadS16(k) < 0
    /\ \E k \in 0..17 : PayloadS16(k) > 255

(***************************************************************************)
(* The field extraction on chosen values.  arg names the function under    *)
(* test and the value v that scanBuf encodes:                              *)
(*   parseUint14LEValues / parseUintLEValues(w) on a byte span;            *)
(*   getInt16: parsePacket on a 0x47 packet whose 18 fields encode v,      *)
(*             v + 4099, v + 2 * 4099, .. (wrapping in 16 bits);           *)
(*   scaleEEG: parsePacket on a 0x12 packet whose 16 fields encode v,      *)
(*             v + 1021, v + 2 * 1021, .. (wrapping in 14 bits).           *)
(***************************************************************************)
MaxSpan == 5    \* longest byte span handed to the extraction, besides the 28-byte one

Widths == {1, 7, 14, 16, 20}

Spans ==
    {Payload(n, seed) : n \in 0..MaxSpan, seed \in {11, 201}}
        \cup {[i \in 1..n |-> 255] : n \in 0..MaxSpan}
        \cup {Payload(28, 11)}

SignedValues == (0 - 32768)..32767

RawSamples == {0, 1, 8191, 8192, 8193, 16382, 16383} \cup {r \in 0..16383 : r % 257 = 0}

SignedField(v, j) == ((v + j * 4099 + 32768) % 65536) - 32768

\* v as a 16-bit two's-complement little-endian field
Encode16(v) == <<(v % 65536) % 256, (v % 65536) \div 256>>

InertialWith(v) ==
    <<TagAccGyro, 0, 0, 0, 0>>
        \o [k \in 1..36 |-> Encode16(SignedField(v, (k - 1) \div 2))[((k - 1) % 2) + 1]]

RawField(v, i) == (v + i * 1021) % 16384

\* bit m of the 224-bit payload is bit m mod 14 of field floor(m / 14)
PackedBit(v, m) == (RawField(v, m \div 14) \div Pow2(m % 14)) % 2

EegWith(v) ==
    <<TagEEG, 0, 0, 0, 0>>
        \o [k \in 1..28 |->
              PackedBit(v, 8 * (k - 1)) + 2 * PackedBit(v, 8 * (k - 1) + 1)
              + 4 * PackedBit(v, 8 * (k - 1) + 2) + 8 * PackedBit(v, 8 * (k - 1) + 3)
              + 16 * PackedBit(v, 8 * (k - 1) + 4) + 32 * PackedBit(v, 8 * (k - 1) + 5)
              + 64 * PackedBit(v, 8 * (k - 1) + 6) + 128 * PackedBit(v, 8 * (k - 1) + 7)]

OpticalSeeds == {0, 11, 77, 201, 255}

FieldArgs ==
    {[fn |-> "parseUint14LEValues", w |-> 14, v |-> 0]}
        \cup {[fn |-> "parseUintLEValues", w |-> w, v |-> 0] : w \in Widths}
        \cup {[fn |-> "getInt16", w |-> 16, v |-> v] : v \in SignedValues}
        \cup {[fn |-> "scaleEEG", w |-> 14, v |-> v] : v \in RawSamples}
        \cup {[fn |-> "optical", w |-> 20, v |-> seed] : seed \in OpticalSeeds}

InitFields ==
    /\ ClientInit
    /\ arg \in FieldArgs
    /\ scanBuf \in (IF arg.fn = "getInt16" THEN {InertialWith(arg.v)}
                    ELSE IF arg.fn = "scaleEEG" THEN {EegWith(arg.v)}
                    ELSE IF arg.fn = "optical" THEN {Packet(TagOptical, 30, arg.v)}
                    ELSE Spans)
    /\ scanIdx = 0
    /\ callTag = ByteAt(scanBuf, 0)
    /\ decoded = NULL
    /\ scanner = ""
    /\ target = 0
    /\ phase = "idle"
    /\ trail = <<>>
    /\ tally = NoTally
    /\ twin = NoTwin
    /\ clockNow = StartNow
    /\ nCalls = 0
    /\ kindUnderTest = ""
    /\ infoProc = NoInfo
    /\ fwAnswers = 0

\* parseUint14LEValues(scanBuf) / parseUintLEValues(scanBuf, w)
ExtractUnsigned ==
    /\ arg.fn \in {"parseUint14LEValues", "parseUintLEValues"}
    /\ decoded = NULL
    /\ decoded' = Some(IF arg.fn = "parseUint14LEValues"
                       THEN parseUint14LEValues(scanBuf)
                       ELSE parseUintLEValues(scanBuf, arg.w))
    /\ UNCHANGED <<clientVars, scanBuf, scanIdx, callTag, arg, scanVars, twinVars, infoVars>>

\* parsePacket on the packet that encodes arg.v
DecodeField ==
    /\ arg.fn \in {"getInt16", "scaleEEG", "optical"}
    /\ Decode

NextFields ==
    \/ ExtractUnsigned
    \/ DecodeField

SpecFields == InitFields /\ [][NextFields]_vars

(***************************************************************************)
(* Properties of the field extraction (checked under SpecFields).          *)
(***************************************************************************)
\* bit k of a buffer = bit k mod 8 of byte floor(k / 8)
BufferBit(buf, k) == (buf[(k \div 8) + 1] \div (2 ^ (k % 8))) % 2

RECURSIVE LsbFirst(_, _, _, _)
LsbFirst(buf, start, w, j) ==
    IF j >= w THEN 0
    ELSE BufferBit(buf, start + j) * (2 ^ j) + LsbFirst(buf, start, w, j + 1)

\* C22: unsigned extraction of width w from a buffer of n bytes returns
\* exactly floor(n * 8 / w) values, each in [0, 2^w), value i assembled
\* LSB-first from bits i * w .. i * w + w - 1 of the buffer; a zero-length
\* buffer yields the empty sequence and 28 bytes at width 14 yield 16 values.
\* The 20-bit extraction of the 30-byte optical block follows the same rule.
C22_UnsignedExtraction ==
    /\ (decoded # NULL /\ arg.fn = "optical") =>
        LET entries == Val(decoded).entries
            block == subarray(scanBuf, 5, 35)
        IN  /\ ~Val(decoded).raised
            /\ Len(entries) * 4 = (Len(block) * 8) \div arg.w
            /\ \A sample \in 1..3 : \A value \in 1..4 :
                  LET x == entries[sample].data[value]
                  IN  /\ x >= 0
                      /\ x < 2 ^ arg.w
                      /\ x = LsbFirst(block, ((sample - 1) * 4 + value - 1) * arg.w, arg.w, 0)
    /\ (decoded # NULL /\ arg.fn \in {"parseUint14LEValues", "parseUintLEValues"}) =>
        LET values == Val(decoded)
            n == Len(scanBuf)
        IN  /\ Len(values) = (n * 8) \div arg.w
            /\ \A i \in 1..Len(values) :
                  /\ values[i] >= 0
                  /\ values[i] < 2 ^ arg.w
                  /\ values[i] = LsbFirst(scanBuf, (i - 1) * arg.w, arg.w, 0)
            /\ n = 0 => values = <<>>
            /\ (n = 28 /\ arg.w = 14) => Len(values) = 16

\* parseUint14LEValues has extracted the 16 values of a 28-byte payload
C22_Witness ==
    /\ decoded # NULL
    /\ arg.fn = "parseUint14LEValues"
    /\ Len(scanBuf) = 28
    /\ Len(Val(decoded)) = 16
    /\ \E i \in 1..16 : Val(decoded)[i] > 8192
    /\ \E i \in 1..16 : Val(decoded)[i] < 8192

\* C23: for every v in [-2^15, 2^15), a 16-bit two's-complement
\* little-endian field of an inertial payload that encodes v is decoded to
\* the raw value v (the GYRO scale factor is negative); a field whose
\* unsigned value is >= 2^15 is read as that value - 2^16.
C23_SignedRoundTrip ==
    (decoded # NULL /\ arg.fn = "getInt16") =>
        LET entries == Val(decoded).entries
        IN  /\ ~Val(decoded).raised
            /\ entries[1].data[1] = arg.v
            /\ \A n \in 1..3 : \A c \in 1..3 :
                  /\ entries[2 * n - 1].data[c] = SignedField(arg.v, 6 * (n - 1) + c - 1)
                  /\ entries[2 * n].data[c] = 0 - SignedField(arg.v, 6 * (n - 1) + 3 + c - 1)
                  /\ PayloadU16(6 * (n - 1) + c - 1) >= 32768 =>
                        entries[2 * n - 1].data[c] = PayloadU16(6 * (n - 1) + c - 1) - 65536

\* the most negative value has gone through the round trip
C23_Witness ==
    /\ decoded # NULL
    /\ arg.fn = "getInt16"
    /\ arg.v = 0 - 32768
    /\ PayloadU16(0) = 32768
    /\ Val(decoded).entries[1].data[1] = 0 - 32768

\* C25: each of the 16 decoded bioelectric values is (raw - 8192) * 0.0885
\* for its 14-bit raw field (here in units of 1e-4 uV): raw 8192 maps to 0,
\* raw below 8192 to a negative value, and a larger raw to a larger value.
C25_OffsetBinary ==
    (decoded # NULL /\ arg.fn = "scaleEEG") =>
        LET data == Val(decoded).entries[1].data
        IN  /\ Len(data) = 16
            /\ \A i \in 1..16 :
                  LET raw == RawField(arg.v, i - 1)
                  IN  /\ data[i] = (raw - 8192) * 885
                      /\ raw = 8192 => data[i] = 0
                      /\ raw < 8192 => data[i] < 0
                      /\ raw > 8192 => data[i] > 0
            /\ \A i, j \in 1..16 :
                  RawField(arg.v, i - 1) < RawField(arg.v, j - 1) => data[i] < data[j]

\* a packet whose first field is the mid-range raw value 8192 and which has
\* fields on both sides of it
C25_Witness ==
    /\ decoded # NULL
    /\ arg.fn = "scaleEEG"
    /\ arg.v = 8192
    /\ Val(decoded).entries[1].data[1] = 0
    /\ \E i \in 1..16 : Val(decoded).entries[1].data[i] < 0
    /\ \E i \in 1..16 : Val(decoded).entries[1].data[i] > 0

(***************************************************************************)
(* Further properties of the command queue (checked under SpecControl).    *)
(***************************************************************************)
\* start() is about to call sendCommand with a name outside the table, and
\* the step is that call
UnknownSend ==
    /\ startProc.st = "delay"
    /\ startProc.step < Len(StartCommands(startProc.preset))
    /\ StartCommands(startProc.preset)[startProc.step + 1] \notin DOMAIN ATHENA_COMMANDS
    /\ startProc' # startProc

C27_RejectedWriteSurfaced ==
    \A i \in 1..Len(links) :
        links[i].st = "rejected" =>
            /\ links[i].by = "start" => startProc.st = "failed"
            /\ \A k \in 1..Len(writes) : writes[k].link <= i

\* a write of start() in the middle of the sequence was rejected by the
\* transport and start() has failed at that command
C27_Witness ==
    \E i \in 1..Len(links) :
        /\ links[i].by = "start"
        /\ links[i].st = "rejected"
        /\ \E k \in 1..Len(writes) : writes[k].link = i
        /\ startProc.st = "failed"
        /\ startProc.link = i
        /\ startProc.step \in 2..6
        /\ startProc.preset \in DOMAIN ATHENA_COMMANDS

\* C28: between two consecutive writes the delay(50) that follows the first
\* one elapses, whoever the callers are: a link is fulfilled only when its
\* delay expires, writes are issued one at a time, and when a write is
\* issued the link of every earlier write is fulfilled.
C28_DelayBetweenWrites ==
    /\ [][\A i \in 1..Len(links) :
              (links[i].st # "resolved" /\ links'[i].st = "resolved") => links[i].st = "delay"]_vars
    /\ [][Len(writes') <= Len(writes) + 1]_vars
    /\ [](\A k \in 1..(Len(writes) - 1) : links[writes[k].link].st = "resolved")

\* two consecutive writes of different callers, the second one issued by
\* the expiry of the first one's delay
C28_Witness ==
    \E k \in 1..(Len(writes) - 1) :
        /\ writes[k].by # writes[k + 1].by
        /\ links[writes[k].link].st = "resolved"
        /\ links[writes[k + 1].link].st = "writing"

NoRejection == \A i \in 1..Len(links) : links[i].st # "rejected"

\* C29: the writes are made in the order of the sendCommand calls: a call
\* chains its link behind all earlier ones, writes are only ever added at the
\* end, the written links are in increasing order and carry their link's
\* command, and while no write has failed the k-th write is the k-th call's
\* (none dropped, none duplicated).
C29_FirstInFirstOut ==
    /\ [][Len(links') # Len(links) =>
              /\ Len(links') = Len(links) + 1
              /\ \A i \in 1..Len(links) :
                    links'[i].cmd = links[i].cmd /\ links'[i].by = links[i].by]_vars
    /\ [][writes' # writes => IsPrefix(writes, writes')]_vars
    /\ [](\E healthy \in {NoRejection} :
             /\ \A k \in 1..Len(writes) :
                   /\ writes[k].link \in 1..Len(links)
                   /\ writes[k].cmd = links[writes[k].link].cmd
                   /\ writes[k].by = links[writes[k].link].by
                   /\ k > 1 => writes[k - 1].link < writes[k].link
                   /\ healthy => writes[k].link = k
             /\ healthy =>
                   \A i \in 1..Len(links) : links[i].st # "queued" <=> i <= Len(writes))

\* two callers had commands queued at the same time and all of them were
\* written, in call order
C29_Witness ==
    /\ NoRejection
    /\ Len(writes) >= 4
    /\ Len(writes) = Len(links)
    /\ \E k \in 1..(Len(writes) - 1) : writes[k].by = "pause" /\ writes[k + 1].by = "start"
    /\ \E k \in 1..(Len(writes) - 1) : writes[k].by = "start" /\ writes[k + 1].by = "pause"

(***************************************************************************)
(* pause() and resume() while readings are streaming: the connection, one  *)
(* subscription per kind, notifications and the two calls.                 *)
(***************************************************************************)
PauseOps == {"pause", "resume"}

\* the notifications that carry readings
PauseBuffers == {b \in Buffers : Len(b) > Len(Header(0))}

NextPause ==
    \/ Connect
    \/ \E tag \in {TagEEG, TagAccGyro} : Subscribe(tag)
    \/ \E buf \in PauseBuffers, t \in Times : Notify(buf, t)
    \/ \E op \in PauseOps : Call(op)
    \/ \E i \in 1..Len(links) : WriteDone(i)
    \/ \E i \in 1..Len(links) : DelayElapsed(i)

SpecPause == Init /\ [][NextPause]_vars

LinksBy(op) == {i \in 1..Len(links) : links[i].by = op}

WritesOf(i) == {k \in 1..Len(writes) : writes[k].link = i}

MaxShort == 4   \* short commands have 0..MaxShort characters

Ascii ==
    ("v" :> 118) @@ ("s" :> 115) @@ ("h" :> 104) @@ ("p" :> 112) @@ ("d" :> 100)
        @@ ("c" :> 99) @@ ("L" :> 76) @@ ("X" :> 88)
        @@ ("0" :> 48) @@ ("1" :> 49) @@ ("2" :> 50) @@ ("3" :> 51) @@ ("4" :> 52)
        @@ ("5" :> 53) @@ ("6" :> 54)

\* the code points of a command name of the table
codePoints(name) == [i \in 1..Len(name) |-> Ascii[SubSeq(name, i, i)]]

\* the concatenation of pieces[lo], .., pieces[hi]
RECURSIVE Flatten(_, _, _)
Flatten(pieces, lo, hi) ==
    IF lo > hi THEN <<>>
    ELSE IF lo = hi THEN pieces[lo]
    ELSE Flatten(pieces, lo, (lo + hi) \div 2) \o Flatten(pieces, ((lo + hi) \div 2) + 1, hi)

TextEncoder(str) ==
    Flatten([i \in 1..Len(str) |->
                IF str[i] < 128 THEN <<str[i]>>
                ELSE <<192 + (str[i] \div 64), 128 + (str[i] % 64)>>],
            1, Len(str))

\* a lead byte of a two-byte sequence is never a continuation byte, so what
\* a byte decodes to depends on its neighbours only
TextDecoder(bytes) ==
    LET lead(i) == bytes[i] \in 194..223
        cont(i) == bytes[i] \in 128..191
    IN  Flatten([i \in 1..Len(bytes) |->
                    IF bytes[i] < 128 THEN <<bytes[i]>>
                    ELSE IF lead(i) /\ i < Len(bytes) /\ cont(i + 1)
                         THEN <<(bytes[i] - 192) * 64 + (bytes[i + 1] - 128)>>
                    ELSE IF cont(i) /\ i > 1 /\ lead(i - 1) THEN <<>>
                    ELSE <<65533>>],
                1, Len(bytes))

\* mutant: the length byte counts the whole frame
encodeCommandCountsItself(cmd) ==
    LET raw == TextEncoder(<<Ascii["X"]>> \o cmd \o <<10>>)
    IN  [raw EXCEPT ![1] = Len(raw) % 256]

\* encodeCommand(cmd): encoded[0] = encoded.length - 1, stored in a Uint8Array
encodeCommand(cmd) ==
    LET raw == TextEncoder(<<Ascii["X"]>> \o cmd \o <<10>>)
    IN  [raw EXCEPT ![1] = (Len(raw) - 1) % 256]

\* decodeResponse(bytes): the bytes[0] bytes after the first, decoded
decodeResponse(bytes) == TextDecoder(subarray(bytes, 1, 1 + ByteAt(bytes, 0)))

Repeat(c, n) == [i \in 1..n |-> c]

LongLengths == (125..129) \cup (253..257)

CommandStrings ==
    {codePoints(name) : name \in DOMAIN ATHENA_COMMANDS}
        \cup {<<118, 49>>}
        \cup {Repeat(c, n) : c \in {48, 97, 233}, n \in (0..MaxShort) \cup LongLengths}

InitFrame ==
    /\ ClientInit
    /\ arg \in {[fn |-> "encodeCommand", w |-> 0, v |-> cmd] : cmd \in CommandStrings}
    /\ scanBuf = <<>>
    /\ scanIdx = 0
    /\ callTag = 0
    /\ decoded = NULL
    /\ scanner = ""
    /\ target = 0
    /\ phase = "idle"
    /\ trail = <<>>
    /\ tally = NoTally
    /\ twin = NoTwin
    /\ clockNow = StartNow
    /\ nCalls = 0
    /\ kindUnderTest = ""
    /\ infoProc = NoInfo
    /\ fwAnswers = 0

\* encodeCommand(cmd)
EncodeCommand ==
    /\ phase = "idle"
    /\ scanBuf' = encodeCommand(arg.v)
    /\ phase' = "encoded"
    /\ UNCHANGED <<clientVars, scanIdx, callTag, decodeVars, scanner, target, trail, tally,
                   twinVars, infoVars>>

\* decodeResponse(encodeCommand(cmd))
DecodeResponse ==
    /\ phase = "encoded"
    /\ decoded' = Some(decodeResponse(scanBuf))
    /\ phase' = "decoded"
    /\ UNCHANGED <<clientVars, scanBuf, scanIdx, callTag, arg, scanner, target, trail, tally,
                   twinVars, infoVars>>

NextFrame ==
    \/ EncodeCommand
    \/ DecodeResponse

SpecFrame == InitFrame /\ [][NextFrame]_vars

NewReadings == SubSeq(out', Len(out) + 1, Len(out'))

SamplesOf(readings) == Flatten([i \in 1..Len(readings) |-> readings[i].samples], 1, Len(readings))

DataOf(entries) == Flatten([i \in 1..Len(entries) |-> entries[i].data], 1, Len(entries))

QueueSettled == \A i \in 1..Len(links) : links[i].st \in {"resolved", "rejected"}

\* the first failure of the queue was a write the transport rejected
WriteWasRejected ==
    \E i \in 1..Len(links) :
        /\ links[i].st = "rejected"
        /\ \E k \in 1..Len(writes) : writes[k].link = i
        /\ \A j \in 1..(i - 1) : links[j].st = "resolved"

\* C33: after a rejected write the queue stays usable: a sendCommand made
\* while the channel accepts writes again and nothing is pending before it
\* performs its write, instead of being rejected without writing.
C33_QueueStaysUsable ==
    [][(/\ WriteWasRejected
        /\ Len(links') = Len(links) + 1
        /\ deviceConnected
        /\ hasControlChar
        /\ QueueSettled) =>
           /\ links'[Len(links')].st = "writing"
           /\ Len(writes') = Len(writes) + 1]_vars

IsStartWrite(w) == w.by = "start"

StartWrites == LET sw == SelectSeq(writes, IsStartWrite) IN [k \in 1..Len(sw) |-> sw[k].cmd]

C35_OtherClocksUntouched ==
    [][(scanner = "router" /\ phase = "loop" /\ calls' # calls) =>
          \E k \in {KindOfTag(ByteAt(scanBuf, scanIdx))} :
             /\ IsPrefix(calls, calls')
             /\ \A n \in (Len(calls) + 1)..Len(calls') : calls'[n].kind = k
             /\ lastIndex'[k] # NULL
             /\ lastTimestamp'[k] = Some(calls'[Len(calls')].ret)
             /\ \A o \in Kinds \ {k} :
                   /\ lastIndex'[o] = lastIndex[o]
                   /\ lastTimestamp'[o] = lastTimestamp[o]]_vars

\* the calls for an EEG packet were made while the ACC/GYRO and the optical
\* clock were running; both still hold what their own last call returned
C35_Witness ==
    /\ scanner = "router"
    /\ Len(calls) >= 3
    /\ calls[Len(calls)].kind = "eeg"
    /\ \A o \in {"accgyro", "optical"} :
          /\ lastIndex[o] # NULL
          /\ \E n \in 1..Len(calls) :
                /\ calls[n].kind = o
                /\ lastTimestamp[o] = Some(calls[n].ret)
                /\ \A m \in (n + 1)..Len(calls) : calls[m].kind # o

(***************************************************************************)
(* muse-athena.ts: parseAthenaBatterySync, the batteryData pipeline, and   *)
(* the delivery of one notification to the sensor pipelines and to it.     *)
(* decoded is what batteryData publishes for the buffer (NULL: nothing).   *)
(***************************************************************************)
\* mutant: the scan goes on after a 0x88 packet and keeps the last one
RECURSIVE batteryLoopKeepsLast(_, _, _)
batteryLoopKeepsLast(packet, i, t) ==
    IF ~(i < Len(packet)) THEN NULL
    ELSE LET p == PacketTable[packet][i]
         IN  IF p.raised THEN batteryLoopKeepsLast(packet, i + 1, t)
             ELSE LET later == batteryLoopKeepsLast(packet, advance(p.next, i), t)
                  IN  IF ByteAt(packet, i) = TagBattery /\ later = NULL
                      THEN Some([timestamp |-> t, values |-> p.entries[1].data])
                      ELSE later

\* the while loop of parseAthenaBatterySync from idx = i
RECURSIVE batteryLoop(_, _, _)
batteryLoop(packet, i, t) ==
    IF ~(i < Len(packet)) THEN NULL
    ELSE LET p == PacketTable[packet][i]
         IN  IF p.raised THEN batteryLoop(packet, onCatch(i), t)
             ELSE IF ByteAt(packet, i) = TagBattery
                  THEN Some([timestamp |-> t, values |-> p.entries[1].data])
             ELSE batteryLoop(packet, advance(p.next, i), t)

parseAthenaBatterySync(packet, t) ==
    IF Len(packet) < 10 THEN NULL
    ELSE batteryLoop(packet, 9, t)

\* one characteristicvaluechanged event: the sensor pipelines handle the
\* buffer, then batteryData maps it and filters out null
Deliver(buf, t) ==
    /\ Handle(buf, t)
    /\ scanBuf' = buf
    /\ decoded' = parseAthenaBatterySync(buf, t)
    /\ UNCHANGED <<scanIdx, callTag, arg, scanVars, twinVars, infoVars>>

NextDeliver ==
    \/ Connect
    \/ \E tag \in {TagEEG, TagAccGyro, TagOptical} : Subscribe(tag)
    \/ \E buf \in DeliveredBuffers : Deliver(buf, StartNow)

SpecDeliver == Init /\ [][NextDeliver]_vars

\* C36: a notification buffer shorter than 10 bytes publishes no reading of
\* any kind, sensor or power, and leaves every StreamClock unchanged.
C36_ShortBufferIgnored ==
    [][(dispatches' = dispatches + 1 /\ Len(scanBuf') < 10) =>
          /\ out' = <<>>
          /\ calls' = <<>>
          /\ decoded' = NULL
          /\ lastIndex' = lastIndex
          /\ lastTimestamp' = lastTimestamp]_vars

\* a header-only buffer of 9 bytes was delivered while the EEG clock was
\* running
C36_Witness ==
    /\ dispatches = 2
    /\ Len(scanBuf) = 9
    /\ lastTimestamp.eeg # NULL
    /\ lastIndex.eeg # NULL
    /\ out = <<>>

\* the offsets a scan from idx visits when it never stops early
RECURSIVE ScanOffsets(_, _)
ScanOffsets(buf, i) ==
    IF ~(i < Len(buf)) THEN {}
    ELSE {i} \cup ScanOffsets(buf, IF PacketTable[buf][i].raised \/ PacketTable[buf][i].next <= i
                                   THEN i + 1 ELSE PacketTable[buf][i].next)

\* the visited offsets that hold a 0x88 packet lying wholly in the buffer
PowerOffsets(buf) ==
    {i \in ScanOffsets(buf, 9) : ByteAt(buf, i) = TagBattery /\ i + 5 + 20 <= Len(buf)}

\* the ten 16-bit little-endian values of the packet at offset i
PowerValues(buf, i) ==
    [n \in 1..10 |-> ByteAt(buf, i + 5 + 2 * (n - 1)) + 256 * ByteAt(buf, i + 5 + 2 * (n - 1) + 1)]

\* C38: a notification buffer publishes at most one power reading: the
\* values of the first 0x88 packet, wholly inside the buffer, that the scan
\* from offset 9 finds; later 0x88 packets of the buffer are not published,
\* and a buffer without such a packet publishes none.
C38_FirstPowerPacketOnly ==
    dispatches > 0 =>
        \E found \in {PowerOffsets(scanBuf)} :
            IF found = {} THEN decoded = NULL
            ELSE /\ decoded # NULL
                 /\ \E i \in found :
                       /\ \A j \in found : i <= j
                       /\ Val(decoded).values = PowerValues(scanBuf, i)

\* a buffer with two 0x88 packets behind an EEG packet: the values of the
\* first one were published, and they differ from the second one's
C38_Witness ==
    /\ dispatches > 0
    /\ decoded # NULL
    /\ \E i, j \in PowerOffsets(scanBuf) :
          /\ 9 < i /\ i < j
          /\ Val(decoded).values = PowerValues(scanBuf, i)
          /\ Val(decoded).values # PowerValues(scanBuf, j)

(***************************************************************************)
(* deviceInfo(): the listener on controlResponses is built first, but it   *)
(* is subscribed by firstValueFrom only after `await sendCommand('v6')`    *)
(* has returned, that is after the write and its delay(50).  The control   *)
(* pipeline is share()d without replay, so a response is seen only by the  *)
(* listeners subscribed when its notification is handled.                  *)
(*   await     - in `await this.sendCommand('v6')`, on links[link]         *)
(*   listening - firstValueFrom(resultListener) is subscribed              *)
(*   returned  - the promise of deviceInfo() is fulfilled with a response  *)
(*   failed    - the promise of deviceInfo() is rejected                   *)
(***************************************************************************)
InfoSettled == infoProc.st = "await" /\ links[infoProc.link].st \in {"resolved", "rejected"}

\* deviceInfo() is called: runs up to `await this.sendCommand('v6')`
DeviceInfo ==
    /\ infoProc.st \in {"idle", "returned", "failed"}
    /\ callsMade < MaxOps
    /\ IF ~hasControlChar
       THEN /\ infoProc' = [st |-> "failed", link |-> 0]
            /\ UNCHANGED <<links, writes, startProc>>
       ELSE \E r \in {sendCommand(links, writes, CallerCommand["deviceInfo"], "deviceInfo")} :
                /\ links' = r.links
                /\ writes' = r.writes
                /\ startProc' = Settle(startProc, r.links)
                /\ infoProc' = [st |-> "await", link |-> Len(r.links)]
    /\ callsMade' = callsMade + 1
    /\ UNCHANGED <<scanBuf, scanIdx, decodeVars, scanVars, twinVars, fwAnswers,
                   connVars, clockVars, subscribed, histVars>>

\* deviceInfo() resumes from the await when its link has settled: it
\* subscribes the listener, or rejects with the link's error
DeviceInfoResume ==
    /\ InfoSettled
    /\ infoProc' = [infoProc EXCEPT !.st = IF links[infoProc.link].st = "resolved"
                                           THEN "listening" ELSE "failed"]
    /\ UNCHANGED <<clientVars, scanBuf, scanIdx, decodeVars, scanVars, twinVars, fwAnswers>>

\* the v6 writes the transport has fulfilled
QueriesSent ==
    Cardinality({j \in 1..Len(writes) :
                    /\ writes[j].cmd = CallerCommand["deviceInfo"]
                    /\ links[writes[j].link].st \in {"delay", "resolved"}})

\* the device answers a v6 query with its firmware response: one notification
\* of the control characteristic, handled by the listeners subscribed now
DeviceAnswers ==
    /\ deviceConnected
    /\ fwAnswers < QueriesSent
    /\ ~InfoSettled
    /\ fwAnswers' = fwAnswers + 1
    /\ infoProc' = IF infoProc.st = "listening" THEN [infoProc EXCEPT !.st = "returned"]
                   ELSE infoProc
    /\ UNCHANGED <<clientVars, scanBuf, scanIdx, decodeVars, scanVars, twinVars>>

NextInfo ==
    \/ Connect
    \/ DeviceInfo
    \/ \E op \in PauseOps : Call(op)
    \/ \E i \in 1..Len(links) : WriteDone(i)
    \/ \E i \in 1..Len(links) : DelayElapsed(i)
    \/ DeviceInfoResume
    \/ DeviceAnswers

\* what happens without the application: writes settle, timers fire,
\* continuations run, the device answers the queries it has received
InfoProgress ==
    \/ \E i \in 1..Len(links) : WriteDone(i)
    \/ \E i \in 1..Len(links) : DelayElapsed(i)
    \/ DeviceInfoResume
    \/ DeviceAnswers

\* these steps are taken in the end; the application is free to make no
\* further call
SpecInfo == Init /\ [][NextInfo]_vars /\ WF_vars(InfoProgress)

\* the position of the running call's query among the v6 writes
InfoQueryRank ==
    Cardinality({j \in 1..Len(writes) :
                    /\ writes[j].cmd = CallerCommand["deviceInfo"]
                    /\ writes[j].link <= infoProc.link})

\* the device has answered the query of the running deviceInfo() call
InfoAnswered ==
    /\ infoProc.st \in {"await", "listening"}
    /\ \E j \in 1..Len(writes) : writes[j].link = infoProc.link
    /\ fwAnswers >= InfoQueryRank

\* C37: whenever the device has answered the v6 query of a deviceInfo() call,
\* at whatever moment after the write, that call resolves in the end
C37_AnswerResolvesDeviceInfo == InfoAnswered ~> (infoProc.st = "returned")

(***************************************************************************)
(* packetParser: the counts against the collected list (SpecScan, with     *)
(* collect left at its default, true).                                     *)
(***************************************************************************)
CollectedOf(name) == {j \in 1..Len(trail) : trail[j].type = name}

RECURSIVE CollectedSamples(_, _)
CollectedSamples(name, n) ==
    IF n = 0 THEN 0
    ELSE CollectedSamples(name, n - 1) + (IF trail[n].type = name THEN trail[n].samples ELSE 0)

\* C39: when packetParser has returned, every name of the collected list has
\* a counts entry, and every counts entry holds the number of collected
\* packets of its name and the sum of their sample counts
C39_CountsAgreeWithList ==
    (scanner = "packetParser" /\ phase = "done") =>
        /\ \A j \in 1..Len(trail) :
               \E i \in 1..Len(tally.counts) : tally.counts[i].name = trail[j].type
        /\ \A i \in 1..Len(tally.counts) :
               /\ tally.counts[i].packets = Cardinality(CollectedOf(tally.counts[i].name))
               /\ tally.counts[i].samples = CollectedSamples(tally.counts[i].name, Len(trail))

====
